---- MODULE Spec2Model ----
(***************************************************************************)
(* A model of the mockylla statement engine: one table                     *)
(*     CREATE TABLE t (id int PRIMARY KEY, v int)                          *)
(* and the INSERT / UPDATE / DELETE / SELECT handlers that act on its      *)
(* rows, with write timestamps, TTL expiry and lightweight transactions.   *)
(***************************************************************************)
EXTENDS Integers, Sequences, FiniteSets

VARIABLES
    data,     \* table_info["data"]: the ordered list of stored rows
    now,      \* the wall clock read by time.time(), in whole seconds; the
              \* statements executed between two ticks read the same value
    pc,       \* "idle" between statements, "done" while a result is held
    pre,      \* history: table_info["data"] when the statement started
    last,     \* history: the statement executed and its inputs
    result,   \* what the statement returned to the caller
    previous, \* history: the statement executed before it, if it was an
              \* INSERT ... IF NOT EXISTS that was applied
    keyspaces,     \* state.keyspaces: the catalog, system keyspaces included
    pre_keyspaces, \* history: state.keyspaces when the statement started
    session        \* the MockSession: keyspace, _is_shutdown and the number
                   \* of its _prepared_statements

vars ==
    <<data, now, pc, pre, last, result, previous, keyspaces, pre_keyspaces,
      session>>

----------------------------------------------------------------------------
(* Bounds of the model. *)

MaxKey == 2       \* primary-key values are 1..MaxKey
MaxVal == 2       \* values of the regular column are 1..MaxVal
MaxRows == 3      \* a statement is taken only if it leaves at most this many rows
Epoch == 1        \* the clock reading, in seconds, when the session starts
MaxTime == 1      \* the clock advances at most this many seconds
MaxTtl == 1       \* USING TTL draws from 1..MaxTtl
MaxTs == 1        \* USING TIMESTAMP draws from 1..MaxTs
MaxParams == 1    \* a statement is executed with at most this many parameters
MaxCatalogRows == 1   \* rows stored in a table of the catalog specification

Keys == 1..MaxKey
Vals == 1..MaxVal

(* Python's None: the value of row.get(col) for an absent column. *)
None == -1

(* One second of time.time() in the microsecond unit of write timestamps. *)
MicrosPerSecond == 1000000

----------------------------------------------------------------------------
(* Statement inputs. *)

Columns == {"id", "v"}
PrimaryKeyCols == {"id"}

CmpOps == {"=", "!=", "<", "<=", ">", ">="}

(* A WHERE predicate as written: column, operator, operands.  A comparison *)
(* carries one operand, IN carries the set of its listed values.           *)
CmpConds == [col : Columns, op : CmpOps, vals : {{x} : x \in Vals}]
InConds == [col : Columns, op : {"IN"}, vals : SUBSET Vals \ {{}}]
Conds == CmpConds \cup InConds

Operand(c) == CHOOSE x \in c.vals : TRUE

(* The placeholder marker "%s" standing where an operand is written. *)
Placeholder == 0

PlaceholderConds ==
    [col : Columns, op : {"=", "!="}, vals : {{Placeholder}}]

IsPlaceholder(c) == c.vals = {Placeholder}

(* USING clause as parse_using_options returns it. *)
NoUsing ==
    [ttl_value |-> None, ttl_provided |-> FALSE,
     timestamp_value |-> None, timestamp_provided |-> FALSE]

UsingTtl(n) == [NoUsing EXCEPT !.ttl_value = n, !.ttl_provided = TRUE]

UsingTimestamp(u, t) ==
    [u EXCEPT !.timestamp_value = t, !.timestamp_provided = TRUE]

LwtTypes == {"none", "if_not_exists", "if_exists"}

Stmt(op, id, v, where, using, lwt) ==
    [op |-> op, id |-> id, v |-> v, where |-> where, using |-> using,
     lwt |-> lwt]

NoStmt == Stmt("none", None, None, <<>>, NoUsing, "none")

----------------------------------------------------------------------------
(* Write metadata (row["__meta"]). *)

current_timestamp_microseconds(t) == t * MicrosPerSecond

row_write_timestamp(row) == row.ts

IsExpired(row, t) == row.exp # None /\ row.exp <= t

purge_expired_rows(d, t) == SelectSeq(d, LAMBDA r : ~IsExpired(r, t))

apply_write_metadata(row, timestamp, ttl_value, ttl_provided, t) ==
    [row EXCEPT
        !.ts = timestamp,
        !.exp = IF ~ttl_provided THEN @
                ELSE IF ttl_value > 0 THEN t + ttl_value ELSE None]

(* "if ttl_value is not None and ttl_value < 0: raise InvalidRequest".     *)
(* None is -1, so the negative TTL of the statements is NegativeTtl.       *)
NegativeTtl == -2

ttl_out_of_range_never(using) == FALSE

ttl_out_of_range(using) == using.ttl_value # None /\ using.ttl_value < 0

TtlRejected(d) == [data |-> d, result |-> <<[error |-> "InvalidRequest"]>>]

WriteTimestamp(using, t) ==
    IF using.timestamp_provided THEN using.timestamp_value
    ELSE current_timestamp_microseconds(t)

(* The column values of a stored row, without its write metadata. *)
RowValues(row) == [id |-> row.id, v |-> row.v]

(* The [applied] row of a conditional statement; rows is <<>> or holds the  *)
(* one stored row whose column values are reported with it.                *)
build_lwt_result(applied, rows) ==
    IF rows = <<>> THEN [applied |-> applied]
    ELSE [applied |-> applied, id |-> rows[1].id, v |-> rows[1].v]

----------------------------------------------------------------------------
(* WHERE clauses: parsing and evaluation. *)

(* The comparison regex accepts an operator made of the characters <, > and *)
(* = only; a predicate that matches neither pattern is left out.            *)
parse_where_clause(where) ==
    SelectSeq(where, LAMBDA c :
        /\ ~IsPlaceholder(c)
        /\ (c.op = "IN" \/ c.op \in {"=", "<", "<=", ">", ">="}))

(* row.get(col): None for a column the row does not carry. *)
RowGet(row, col) ==
    IF col = "id" THEN row.id ELSE IF col = "v" THEN row.v ELSE None

check_condition(row_val, op, vals) ==
    CASE op = "="  -> row_val = Operand([vals |-> vals])
      [] op = ">"  -> row_val > Operand([vals |-> vals])
      [] op = "<"  -> row_val < Operand([vals |-> vals])
      [] op = ">=" -> row_val >= Operand([vals |-> vals])
      [] op = "<=" -> row_val <= Operand([vals |-> vals])
      [] op = "IN" -> row_val \in vals
      [] OTHER     -> FALSE

check_row_conditions(row, parsed_conditions) ==
    \A i \in 1..Len(parsed_conditions) :
        LET c == parsed_conditions[i]
            row_val == RowGet(row, c.col)
        IN  row_val # None /\ check_condition(row_val, c.op, c.vals)

handle_update_check_row(row, parsed_conditions) ==
    \A i \in 1..Len(parsed_conditions) :
        LET c == parsed_conditions[i]
        IN  ~(c.op = "=" /\ RowGet(row, c.col) # Operand(c))

----------------------------------------------------------------------------
(* INSERT *)

FindExisting_none(d, id) == 0

(* Index of the first stored row whose primary key equals id, 0 if none. *)
FindExisting(d, id) ==
    IF \E i \in 1..Len(d) : d[i].id = id
    THEN CHOOSE i \in 1..Len(d) :
            d[i].id = id /\ \A j \in 1..(i - 1) : d[j].id # id
    ELSE 0

(* existing.clear(); existing.update(new_row); the previous "__meta" is    *)
(* kept when the statement gives no TTL; apply_write_metadata.             *)
OverwriteExisting(existing, id, v, using, write_timestamp, t) ==
    LET kept ==
            IF using.ttl_provided
            THEN [id |-> id, v |-> v, ts |-> 0, exp |-> None]
            ELSE [id |-> id, v |-> v, ts |-> existing.ts, exp |-> existing.exp]
    IN  apply_write_metadata(kept, write_timestamp, using.ttl_value,
                             using.ttl_provided, t)

AppendNew(d, id, v, using, write_timestamp, t) ==
    Append(d, apply_write_metadata([id |-> id, v |-> v, ts |-> 0, exp |-> None],
                                   write_timestamp, using.ttl_value,
                                   using.ttl_provided, t))

(* IF NOT EXISTS: not applied, with the existing row, when one exists. *)
insert_if_not_exists_always(purged, idx, appended) ==
    [data |-> appended, result |-> <<build_lwt_result(TRUE, <<>>)>>]

insert_if_not_exists(purged, idx, appended) ==
    IF idx # 0
    THEN [data |-> purged,
          result |-> <<build_lwt_result(FALSE, <<purged[idx]>>)>>]
    ELSE [data |-> appended, result |-> <<build_lwt_result(TRUE, <<>>)>>]

(* The handler once the expired rows of the table are purged. *)
insert_into_rows(purged, t, id, v, using, lwt) ==
    LET write_timestamp == WriteTimestamp(using, t)
        idx == FindExisting(purged, id)
        overwritten ==
            [purged EXCEPT ![idx] =
                OverwriteExisting(purged[idx], id, v, using, write_timestamp, t)]
        appended == AppendNew(purged, id, v, using, write_timestamp, t)
    IN  CASE lwt = "if_not_exists" ->
                insert_if_not_exists(purged, idx, appended)
          [] lwt = "if_exists" ->
                IF idx = 0
                THEN [data |-> purged,
                      result |-> <<build_lwt_result(FALSE, <<>>)>>]
                ELSE IF write_timestamp < row_write_timestamp(purged[idx])
                THEN [data |-> purged,
                      result |-> <<build_lwt_result(TRUE, <<>>)>>]
                ELSE [data |-> overwritten,
                      result |-> <<build_lwt_result(TRUE, <<>>)>>]
          [] OTHER ->
                IF idx # 0
                THEN IF write_timestamp < row_write_timestamp(purged[idx])
                     THEN [data |-> purged, result |-> <<>>]
                     ELSE [data |-> overwritten, result |-> <<>>]
                ELSE [data |-> appended, result |-> <<>>]

handle_insert_into_unpurged(d, t, id, v, using, lwt) ==
    insert_into_rows(d, t, id, v, using, lwt)

handle_insert_into(d, t, id, v, using, lwt) ==
    IF ttl_out_of_range(using)
    THEN TtlRejected(purge_expired_rows(d, t))
    ELSE insert_into_rows(purge_expired_rows(d, t), t, id, v, using, lwt)

(* INSERT ... IF <conditions>: applied when the row exists and passes the  *)
(* conditions, else not applied; the row that fails them is reported.      *)
insert_conditions(d, t, id, v, using, lwt_conditions) ==
    LET purged == purge_expired_rows(d, t)
        write_timestamp == WriteTimestamp(using, t)
        idx == FindExisting(purged, id)
        overwritten ==
            [purged EXCEPT ![idx] =
                OverwriteExisting(purged[idx], id, v, using, write_timestamp, t)]
    IN  IF ttl_out_of_range(using)
        THEN TtlRejected(purged)
        ELSE IF idx = 0
        THEN [data |-> purged, result |-> <<build_lwt_result(FALSE, <<>>)>>]
        ELSE IF ~check_row_conditions(purged[idx], lwt_conditions)
        THEN [data |-> purged,
              result |-> <<build_lwt_result(FALSE, <<purged[idx]>>)>>]
        ELSE IF write_timestamp < row_write_timestamp(purged[idx])
        THEN [data |-> purged, result |-> <<build_lwt_result(TRUE, <<>>)>>]
        ELSE [data |-> overwritten, result |-> <<build_lwt_result(TRUE, <<>>)>>]

----------------------------------------------------------------------------
(* UPDATE ... SET v = <v> WHERE ... *)

update_existing_rows(d, parsed_conditions, v, write_timestamp, using, t) ==
    LET Hit(row) ==
            /\ handle_update_check_row(row, parsed_conditions)
            /\ ~(write_timestamp < row_write_timestamp(row))
    IN  [data |->
            [i \in 1..Len(d) |->
                IF Hit(d[i])
                THEN apply_write_metadata([d[i] EXCEPT !.v = v], write_timestamp,
                                          using.ttl_value, using.ttl_provided, t)
                ELSE d[i]],
         rows_updated |-> Cardinality({i \in 1..Len(d) : Hit(d[i])})]

(* The value the last equality predicate on col gives it, None without one. *)
EqualityValue(parsed_conditions, col) ==
    LET eqs == {i \in 1..Len(parsed_conditions) :
                    parsed_conditions[i].op = "=" /\ parsed_conditions[i].col = col}
    IN  IF eqs = {} THEN None
        ELSE Operand(parsed_conditions[CHOOSE i \in eqs : \A j \in eqs : j <= i])

handle_upsert(d, parsed_conditions, v, write_timestamp, using, t) ==
    LET is_upsert == \E i \in 1..Len(parsed_conditions) :
                        parsed_conditions[i].op = "="
    IN  IF ~is_upsert THEN d
        ELSE AppendNew(d, EqualityValue(parsed_conditions, "id"), v, using,
                       write_timestamp, t)

handle_update(d, t, v, where, using, lwt) ==
    LET purged == purge_expired_rows(d, t)
        parsed_conditions == parse_where_clause(where)
        matching_rows ==
            SelectSeq(purged, LAMBDA r : handle_update_check_row(r, parsed_conditions))
        write_timestamp == WriteTimestamp(using, t)
        updated == update_existing_rows(purged, parsed_conditions, v,
                                        write_timestamp, using, t)
        upserted == handle_upsert(purged, parsed_conditions, v,
                                  write_timestamp, using, t)
    IN  CASE ttl_out_of_range(using) -> TtlRejected(d)
          [] lwt = "if_not_exists" ->
                IF matching_rows # <<>>
                THEN [data |-> purged,
                      result |-> <<build_lwt_result(FALSE, <<matching_rows[1]>>)>>]
                ELSE [data |-> upserted,
                      result |-> <<build_lwt_result(TRUE, <<>>)>>]
          [] lwt = "if_exists" ->
                IF matching_rows = <<>>
                THEN [data |-> purged,
                      result |-> <<build_lwt_result(FALSE, <<>>)>>]
                ELSE [data |-> updated.data,
                      result |-> <<build_lwt_result(TRUE, <<>>)>>]
          [] OTHER ->
                IF updated.rows_updated > 0
                THEN [data |-> updated.data, result |-> <<>>]
                ELSE IF matching_rows = <<>>
                THEN [data |-> upserted, result |-> <<>>]
                ELSE [data |-> purged, result |-> <<>>]

(* UPDATE ... IF <conditions>: applied when rows match and each of them    *)
(* passes the conditions; the first that does not is reported.             *)
update_conditions(d, t, v, where, using, lwt_conditions) ==
    LET purged == purge_expired_rows(d, t)
        parsed_conditions == parse_where_clause(where)
        matching_rows ==
            SelectSeq(purged, LAMBDA r : handle_update_check_row(r, parsed_conditions))
        failing ==
            SelectSeq(matching_rows,
                      LAMBDA r : ~check_row_conditions(r, lwt_conditions))
        updated == update_existing_rows(purged, parsed_conditions, v,
                                        WriteTimestamp(using, t), using, t)
    IN  IF ttl_out_of_range(using)
        THEN TtlRejected(d)
        ELSE IF matching_rows = <<>>
        THEN [data |-> purged, result |-> <<build_lwt_result(FALSE, <<>>)>>]
        ELSE IF failing # <<>>
        THEN [data |-> purged,
              result |-> <<build_lwt_result(FALSE, <<failing[1]>>)>>]
        ELSE [data |-> updated.data,
              result |-> <<build_lwt_result(TRUE, <<>>)>>]

----------------------------------------------------------------------------
(* DELETE FROM t WHERE ... *)

handle_delete_from(d, t, where, lwt) ==
    LET purged == purge_expired_rows(d, t)
        parsed_conditions == parse_where_clause(where)
        rows_to_delete ==
            SelectSeq(purged, LAMBDA r : check_row_conditions(r, parsed_conditions))
        rows_to_keep ==
            SelectSeq(purged, LAMBDA r : ~check_row_conditions(r, parsed_conditions))
        deleted_count == Len(rows_to_delete)
    IN  IF where = <<>> \/ parsed_conditions = <<>>
        THEN [data |-> purged, result |-> <<>>]
        ELSE CASE lwt = "if_not_exists" ->
                    IF deleted_count > 0
                    THEN [data |-> purged,
                          result |-> <<build_lwt_result(FALSE, <<rows_to_delete[1]>>)>>]
                    ELSE [data |-> purged,
                          result |-> <<build_lwt_result(TRUE, <<>>)>>]
               [] lwt = "if_exists" ->
                    IF deleted_count = 0
                    THEN [data |-> purged,
                          result |-> <<build_lwt_result(FALSE, <<>>)>>]
                    ELSE [data |-> rows_to_keep,
                          result |-> <<build_lwt_result(TRUE, <<>>)>>]
               [] OTHER ->
                    IF deleted_count > 0
                    THEN [data |-> rows_to_keep, result |-> <<>>]
                    ELSE [data |-> purged, result |-> <<>>]

(* The parameters of a DELETE are written into its WHERE clause, the i-th  *)
(* parameter in the place of the i-th "%s"; ok is FALSE when their number  *)
(* is not the number of placeholders.  Without parameters the clause is    *)
(* taken as written.                                                       *)
PlaceholderCount(where, n) ==
    Cardinality({i \in 1..n : IsPlaceholder(where[i])})

delete_bind_parameters_unchecked(where, parameters) ==
    [ok |-> TRUE, error |-> "", where |-> where]

(* where = <<>> is the statement without WHERE clause: where_clause_str is  *)
(* None, and None.split("%s") raises AttributeError.                       *)
delete_bind_parameters(where, parameters) ==
    IF parameters = <<>> THEN [ok |-> TRUE, error |-> "", where |-> where]
    ELSE IF where = <<>>
    THEN [ok |-> FALSE, error |-> "AttributeError", where |-> where]
    ELSE IF PlaceholderCount(where, Len(where)) # Len(parameters)
    THEN [ok |-> FALSE, error |-> "ValueError", where |-> where]
    ELSE [ok |-> TRUE, error |-> "",
          where |-> [i \in 1..Len(where) |->
                        IF IsPlaceholder(where[i])
                        THEN [where[i] EXCEPT
                                !.vals = {parameters[PlaceholderCount(where, i)]}]
                        ELSE where[i]]]

(* DELETE ... IF <conditions>: applied when rows match and each of them    *)
(* passes the conditions; the first that does not is reported.             *)
delete_conditions(purged, parsed_conditions, lwt_conditions) ==
    LET rows_to_delete ==
            SelectSeq(purged, LAMBDA r : check_row_conditions(r, parsed_conditions))
        rows_to_keep ==
            SelectSeq(purged, LAMBDA r : ~check_row_conditions(r, parsed_conditions))
        failing ==
            SelectSeq(rows_to_delete,
                      LAMBDA r : ~check_row_conditions(r, lwt_conditions))
    IN  IF rows_to_delete = <<>>
        THEN [data |-> purged, result |-> <<build_lwt_result(FALSE, <<>>)>>]
        ELSE IF failing # <<>>
        THEN [data |-> purged,
              result |-> <<build_lwt_result(FALSE, <<failing[1]>>)>>]
        ELSE [data |-> rows_to_keep,
              result |-> <<build_lwt_result(TRUE, <<>>)>>]

(* The DELETE handler with its parameters and its IF clause.  A parameter   *)
(* count that does not fit raises ValueError before any row is looked at;  *)
(* a clause that is absent altogether raises AttributeError from the same  *)
(* statement.                                                              *)
delete_from_bound(d, t, where, parameters, lwt, lwt_conditions) ==
    LET purged == purge_expired_rows(d, t)
        bound == delete_bind_parameters(where, parameters)
        parsed_conditions == parse_where_clause(bound.where)
    IN  IF ~bound.ok
        THEN [data |-> purged, result |-> <<[error |-> bound.error]>>]
        ELSE IF lwt = "conditions" /\ parsed_conditions # <<>>
        THEN delete_conditions(purged, parsed_conditions, lwt_conditions)
        ELSE handle_delete_from(d, t, bound.where, lwt)

----------------------------------------------------------------------------
(* SELECT * FROM t [WHERE ...] *)

apply_where_filters(table_data, where) ==
    IF where = <<>> THEN table_data
    ELSE SelectSeq(table_data,
                   LAMBDA r : check_row_conditions(r, parse_where_clause(where)))

select_columns(filtered_data) ==
    [i \in 1..Len(filtered_data) |-> RowValues(filtered_data[i])]

Raised(d, kind) == [data |-> d, result |-> <<[error |-> kind]>>]

(* The "%s" of the WHERE clause take the first parameters, left to right;  *)
(* the parameters left over are kept for LIMIT.  Too few parameters, or    *)
(* none, is an error; parameters in excess are not.                        *)
select_bind_where(where, parameters) ==
    LET placeholder_count == PlaceholderCount(where, Len(where))
    IN  IF placeholder_count = 0
        THEN [ok |-> TRUE, where |-> where, rest |-> parameters]
        ELSE IF parameters = <<>> \/ placeholder_count > Len(parameters)
        THEN [ok |-> FALSE, where |-> where, rest |-> parameters]
        ELSE [ok |-> TRUE,
              where |-> [i \in 1..Len(where) |->
                            IF IsPlaceholder(where[i])
                            THEN [where[i] EXCEPT
                                    !.vals = {parameters[PlaceholderCount(where, i)]}]
                            ELSE where[i]],
              rest |-> SubSeq(parameters, placeholder_count + 1,
                              Len(parameters))]

(* SELECT * with its positional parameters: the placeholders of WHERE are *)
(* bound first, and the rows of the table are filtered as they stand.      *)
handle_select_from(d, where, parameters) ==
    LET bound == select_bind_where(where, parameters)
    IN  IF ~bound.ok THEN Raised(d, "ValueError")
        ELSE [data |-> d,
              result |-> select_columns(apply_where_filters(d, bound.where))]

----------------------------------------------------------------------------
(* The schema catalog: state.keyspaces maps a keyspace name to its tables  *)
(* and views; a table holds its schema (the ordered column -> type         *)
(* mapping), its primary key, its rows and its indexes.                    *)

Put(f, k, val) == [x \in DOMAIN f \cup {k} |-> IF x = k THEN val ELSE f[x]]

Remove(f, k) == [x \in DOMAIN f \ {k} |-> f[x]]

NoEntries == [x \in {} |-> {}]

Column(name, type) == [name |-> name, type |-> type]

ColumnNames(schema) == {schema[i].name : i \in 1..Len(schema)}

SeqRange(q) == {q[i] : i \in 1..Len(q)}

(* "primary_key" as a list of columns (the tables of the system keyspaces) *)
(* and as the mapping CREATE TABLE stores.                                 *)
PrimaryKeyList(cols) ==
    [form |-> "list", partition |-> <<>>, clustering |-> <<>>, all |-> cols]

PrimaryKeyDict(partition, clustering) ==
    [form |-> "dict", partition |-> partition, clustering |-> clustering,
     all |-> partition \o clustering]

TableInfo(schema, primary_key, rows) ==
    [schema |-> schema, primary_key |-> primary_key, data |-> rows,
     indexes |-> <<>>]

KeyspaceInfo(tables) == [tables |-> tables, views |-> NoEntries]

(* The tables of system_schema; their "data" is modelled as the set of the *)
(* rows update_system_schema lists.                                        *)
SystemSchemaTables ==
    [t \in {"keyspaces", "tables", "columns", "indexes", "views"} |->
        CASE t = "keyspaces" ->
                TableInfo(<<Column("keyspace_name", "text"),
                            Column("durable_writes", "boolean"),
                            Column("replication", "map<text, text>")>>,
                          PrimaryKeyList(<<"keyspace_name">>), {})
          [] t = "tables" ->
                TableInfo(<<Column("keyspace_name", "text"),
                            Column("table_name", "text")>>,
                          PrimaryKeyList(<<"keyspace_name", "table_name">>), {})
          [] t = "columns" ->
                TableInfo(<<Column("keyspace_name", "text"),
                            Column("table_name", "text"),
                            Column("column_name", "text"),
                            Column("kind", "text"), Column("type", "text")>>,
                          PrimaryKeyList(<<"keyspace_name", "table_name",
                                           "column_name">>), {})
          [] t = "indexes" ->
                TableInfo(<<Column("keyspace_name", "text"),
                            Column("table_name", "text"),
                            Column("index_name", "text"),
                            Column("target", "text")>>,
                          PrimaryKeyList(<<"keyspace_name", "table_name",
                                           "index_name">>), {})
          [] OTHER ->
                TableInfo(<<Column("keyspace_name", "text"),
                            Column("view_name", "text"),
                            Column("base_table_name", "text"),
                            Column("where_clause", "text")>>,
                          PrimaryKeyList(<<"keyspace_name", "view_name">>), {})]

ensure_system_schema_structure(ks) ==
    IF "system_schema" \in DOMAIN ks THEN ks
    ELSE Put(ks, "system_schema", KeyspaceInfo(SystemSchemaTables))

(* primary_key[:1] and primary_key[1:] are slices of a list; on the mapping *)
(* that CREATE TABLE stores the subscript raises TypeError.                 *)
SliceRaises(primary_key) == primary_key.form = "dict"

ColumnKind(primary_key, column_name) ==
    IF primary_key.all # <<>> /\ column_name = primary_key.all[1]
    THEN "partition_key"
    ELSE IF column_name \in SeqRange(primary_key.all) THEN "clustering"
    ELSE "regular"

(* The rows update_system_schema lists for each table of system_schema. *)
SchemaRows(ks) ==
    [t \in {"keyspaces", "tables", "columns", "indexes", "views"} |->
        CASE t = "keyspaces" ->
                {[keyspace_name |-> k] : k \in DOMAIN ks}
          [] t = "tables" ->
                UNION {{[keyspace_name |-> k, table_name |-> n] :
                            n \in DOMAIN ks[k].tables} : k \in DOMAIN ks}
          [] t = "columns" ->
                UNION {UNION {{[keyspace_name |-> k, table_name |-> n,
                                column_name |-> ks[k].tables[n].schema[i].name,
                                kind |-> ColumnKind(ks[k].tables[n].primary_key,
                                            ks[k].tables[n].schema[i].name),
                                type |-> ks[k].tables[n].schema[i].type] :
                                    i \in 1..Len(ks[k].tables[n].schema)} :
                            n \in DOMAIN ks[k].tables} : k \in DOMAIN ks}
          [] t = "indexes" ->
                UNION {UNION {{[keyspace_name |-> k, table_name |-> n,
                                index_name |-> ks[k].tables[n].indexes[i].name,
                                target |-> ks[k].tables[n].indexes[i].column] :
                                    i \in 1..Len(ks[k].tables[n].indexes)} :
                            n \in DOMAIN ks[k].tables} : k \in DOMAIN ks}
          [] OTHER ->
                UNION {IF "views" \in DOMAIN ks[k]
                       THEN {[keyspace_name |-> k, view_name |-> w,
                              base_table_name |-> ks[k].views[w].base_table,
                              where_clause |-> ks[k].views[w].where_clause] :
                                    w \in DOMAIN ks[k].views}
                       ELSE {} : k \in DOMAIN ks}]

(* update_system_schema: the rows are collected first and stored at the    *)
(* end, so a raise while collecting leaves the stored rows as they were.   *)
update_system_schema(ks0) ==
    LET ks == ensure_system_schema_structure(ks0)
        raises == \E k \in DOMAIN ks : \E n \in DOMAIN ks[k].tables :
                        SliceRaises(ks[k].tables[n].primary_key)
        rows == SchemaRows(ks)
    IN  IF raises
        THEN [keyspaces |-> ks, result |-> <<[error |-> "TypeError"]>>]
        ELSE [keyspaces |->
                [ks EXCEPT !["system_schema"].tables =
                    [t \in DOMAIN @ |->
                        IF t \in DOMAIN rows
                        THEN [@[t] EXCEPT !.data = rows[t]] ELSE @[t]]],
              result |-> <<>>]

(* The table "local" of the keyspace "system", with its one row. *)
SystemTables ==
    [t \in {"local"} |->
        TableInfo(<<Column("key", "text"),
                    Column("rpc_address", "inet"),
                    Column("data_center", "text"),
                    Column("rack", "text")>>,
                  PrimaryKeyList(<<>>),
                  <<[key |-> "local"]>>)]

(* ScyllaState.__init__ of classes/state.py *)
InitialKeyspaces ==
    update_system_schema(
        [k \in {"system"} |-> KeyspaceInfo(SystemTables)]).keyspaces

(* The ScyllaState of mockylla/__init__.py, the class a MockScyllaDB      *)
(* holds: its keyspaces have no "views" entry and its system_schema has   *)
(* no table "views".                                                       *)
ScyllaState_SystemSchemaTables ==
    [t \in {"keyspaces", "tables", "columns", "indexes"} |->
        SystemSchemaTables[t]]

(* Its __init__: _ensure_system_schema_structure adds system_schema, then *)
(* update_system_schema fills the four tables.                             *)
ScyllaState_init ==
    update_system_schema(
        Put([k \in {"system"} |-> [tables |-> SystemTables]],
            "system_schema",
            [tables |-> ScyllaState_SystemSchemaTables])).keyspaces

(* MockMetadata.keyspaces builds the metadata of every table of every      *)
(* keyspace; MockTableMetadata slices "primary_key" as a list.             *)
MetadataRaises(ks) ==
    \E k \in DOMAIN ks : \E n \in DOMAIN ks[k].tables :
        SliceRaises(ks[k].tables[n].primary_key)

MockTableMetadata(table_info) ==
    LET columns == ColumnNames(table_info.schema)
        primary_key == table_info.primary_key.all
        in_columns(col) == col \in columns
    IN  [partition_key |->
            IF primary_key = <<>> THEN <<>>
            ELSE SelectSeq(<<primary_key[1]>>, in_columns),
         clustering_key |->
            IF primary_key = <<>> THEN <<>>
            ELSE SelectSeq(Tail(primary_key), in_columns),
         columns |-> columns,
         indexes |-> table_info.indexes]

MockMetadata(ks) ==
    IF MetadataRaises(ks) THEN [error |-> "TypeError"]
    ELSE [keyspaces |->
            [k \in DOMAIN ks |->
                [n \in DOMAIN ks[k].tables |->
                    MockTableMetadata(ks[k].tables[n])]]]

----------------------------------------------------------------------------
(* CREATE KEYSPACE, CREATE TABLE *)

handle_create_keyspace(ks, keyspace_name) ==
    IF keyspace_name \in DOMAIN ks
    THEN [keyspaces |-> ks, result |-> <<[error |-> "InvalidRequest"]>>]
    ELSE update_system_schema(Put(ks, keyspace_name, KeyspaceInfo(NoEntries)))

(* A PRIMARY KEY clause declares a list of components; a component is a   *)
(* column or a parenthesized list of columns.                              *)
KeyColumn(c) == [paren |-> FALSE, cols |-> <<c>>]

KeyGroup(cols) == [paren |-> TRUE, cols |-> cols]

(* The text between the parentheses of PRIMARY KEY ( ... ), as the         *)
(* sequence of its tokens "(", ")", "," and column names.                  *)
RECURSIVE Listed(_)
Listed(names) ==
    IF Len(names) <= 1 THEN names
    ELSE <<names[1], ",">> \o Listed(Tail(names))

RECURSIVE pk_def(_)
pk_def(components) ==
    IF components = <<>> THEN <<>>
    ELSE (IF components[1].paren
          THEN <<"(">> \o Listed(components[1].cols) \o <<")">>
          ELSE components[1].cols)
         \o (IF Len(components) = 1 THEN <<>>
             ELSE <<",">> \o pk_def(Tail(components)))

(* The characters of a stripped piece of that text: one blank follows each *)
(* comma inside the piece.                                                 *)
RECURSIVE strip(_)
strip(tokens) ==
    IF tokens = <<>> THEN ""
    ELSE (IF tokens[1] = "," /\ Len(tokens) > 1 THEN ", " ELSE tokens[1])
         \o strip(Tail(tokens))

(* _split_top_level: a comma splits where the running depth is 0, the      *)
(* depth falls below 0 on an unmatched ")", and empty parts are dropped.   *)
RECURSIVE split_top_level_from(_, _, _, _)
split_top_level_from(value, i, current, depth) ==
    LET parts == IF current = <<>> THEN <<>> ELSE <<current>>
    IN  IF i > Len(value) THEN parts
        ELSE IF value[i] = "," /\ depth = 0
        THEN parts \o split_top_level_from(value, i + 1, <<>>, depth)
        ELSE split_top_level_from(value, i + 1, Append(current, value[i]),
                CASE value[i] = "(" -> depth + 1
                  [] value[i] = ")" -> depth - 1
                  [] OTHER -> depth)

split_top_level(value) == split_top_level_from(value, 1, <<>>, 0)

(* text.startswith("(") and text.endswith(")") *)
Parenthesized(tokens) ==
    tokens # <<>> /\ tokens[1] = "(" /\ tokens[Len(tokens)] = ")"

(* _parse_primary_key: a definition that starts with "(" and ends with ")" *)
(* loses that pair first, whatever lies between; the first component is    *)
(* the partition key (its own parenthesized list is split), the others are *)
(* clustering columns, each taken as it is written.                        *)
parse_primary_key(pk_definition) ==
    LET inner == IF Parenthesized(pk_definition)
                 THEN SubSeq(pk_definition, 2, Len(pk_definition) - 1)
                 ELSE pk_definition
        components == split_top_level(inner)
        first == components[1]
        parts == split_top_level(SubSeq(first, 2, Len(first) - 1))
    IN  IF components = <<>>
        THEN [partition |-> <<>>, clustering |-> <<>>]
        ELSE [partition |->
                IF Parenthesized(first)
                THEN [i \in 1..Len(parts) |-> strip(parts[i])]
                ELSE <<strip(first)>>,
              clustering |->
                [i \in 1..(Len(components) - 1) |-> strip(components[i + 1])]]

handle_create_table_unchecked(ks, keyspace_name, table_name, columns, inline, pk) ==
    IF keyspace_name \notin DOMAIN ks
    THEN [keyspaces |-> ks, result |-> <<[error |-> "InvalidRequest"]>>]
    ELSE update_system_schema(
            [ks EXCEPT ![keyspace_name].tables =
                Put(@, table_name,
                    TableInfo(columns,
                              PrimaryKeyDict(
                                IF parse_primary_key(pk).partition = <<>>
                                THEN inline ELSE parse_primary_key(pk).partition,
                                parse_primary_key(pk).clustering),
                              <<>>))])

handle_create_table(ks, keyspace_name, table_name, columns, inline, pk) ==
    IF keyspace_name \notin DOMAIN ks
    THEN [keyspaces |-> ks, result |-> <<[error |-> "InvalidRequest"]>>]
    ELSE IF table_name \in DOMAIN ks[keyspace_name].tables
    THEN [keyspaces |-> ks, result |-> <<[error |-> "InvalidRequest"]>>]
    ELSE LET parsed == parse_primary_key(pk)
             partition_keys ==
                IF parsed.partition = <<>> /\ inline # <<>>
                THEN inline ELSE parsed.partition
         IN  update_system_schema(
                [ks EXCEPT ![keyspace_name].tables =
                    Put(@, table_name,
                        TableInfo(columns,
                                  PrimaryKeyDict(partition_keys, parsed.clustering),
                                  <<>>))])

----------------------------------------------------------------------------
(* DROP TABLE removes the table from its keyspace and leaves the          *)
(* reflective tables as they were.  The definition statements after it     *)
(* follow the rule of the catalog: the change is made, then the reflective *)
(* tables are regenerated; a statement that changes nothing regenerates    *)
(* nothing.                                                                *)

Invalid(ks) == [keyspaces |-> ks, result |-> <<[error |-> "InvalidRequest"]>>]

NoChange(ks) == [keyspaces |-> ks, result |-> <<>>]

handle_drop_table_always(ks, keyspace_name, table_name, if_exists) ==
    IF keyspace_name \in DOMAIN ks
    THEN [keyspaces |->
            [ks EXCEPT ![keyspace_name].tables = Remove(@, table_name)],
          result |-> <<>>]
    ELSE NoChange(ks)

handle_drop_table(ks, keyspace_name, table_name, if_exists) ==
    IF \/ keyspace_name \notin DOMAIN ks
       \/ table_name \notin DOMAIN ks[keyspace_name].tables
    THEN IF if_exists THEN NoChange(ks)
         ELSE [keyspaces |-> ks, result |-> <<[error |-> "Exception"]>>]
    ELSE [keyspaces |->
            [ks EXCEPT ![keyspace_name].tables = Remove(@, table_name)],
          result |-> <<>>]

handle_drop_keyspace_unreserved(ks, keyspace_name, if_exists) ==
    IF keyspace_name \notin DOMAIN ks
    THEN IF if_exists THEN NoChange(ks) ELSE Invalid(ks)
    ELSE update_system_schema(Remove(ks, keyspace_name))

handle_drop_keyspace(ks, keyspace_name, if_exists) ==
    IF keyspace_name = "system" THEN Invalid(ks)
    ELSE IF keyspace_name \notin DOMAIN ks
    THEN IF if_exists THEN NoChange(ks) ELSE Invalid(ks)
    ELSE update_system_schema(Remove(ks, keyspace_name))

(* The tables that carry an index of that name. *)
IndexHolders(ks, index_name) ==
    {kt \in UNION {{<<k, n>> : n \in DOMAIN ks[k].tables} : k \in DOMAIN ks} :
        \E i \in 1..Len(ks[kt[1]].tables[kt[2]].indexes) :
            ks[kt[1]].tables[kt[2]].indexes[i].name = index_name}

handle_create_index(ks, index_name, keyspace_name, table_name, column) ==
    IF \/ keyspace_name \notin DOMAIN ks
       \/ table_name \notin DOMAIN ks[keyspace_name].tables
       \/ IndexHolders(ks, index_name) # {}
    THEN Invalid(ks)
    ELSE update_system_schema(
            [ks EXCEPT ![keyspace_name].tables[table_name].indexes =
                Append(@, [name |-> index_name, column |-> column])])

handle_drop_index(ks, index_name, if_exists) ==
    IF IndexHolders(ks, index_name) = {}
    THEN IF if_exists THEN NoChange(ks) ELSE Invalid(ks)
    ELSE update_system_schema(
            [k \in DOMAIN ks |->
                [ks[k] EXCEPT !.tables =
                    [n \in DOMAIN @ |->
                        [@[n] EXCEPT !.indexes =
                            SelectSeq(@, LAMBDA i : i.name # index_name)]]]])

handle_alter_table(ks, keyspace_name, table_name, column, type) ==
    IF \/ keyspace_name \notin DOMAIN ks
       \/ table_name \notin DOMAIN ks[keyspace_name].tables
    THEN [keyspaces |-> ks, result |-> <<[error |-> "SyntaxException"]>>]
    ELSE update_system_schema(
            [ks EXCEPT ![keyspace_name].tables[table_name].schema =
                IF column \in ColumnNames(@)
                THEN [i \in 1..Len(@) |->
                        IF @[i].name = column THEN Column(column, type) ELSE @[i]]
                ELSE Append(@, Column(column, type))])

handle_create_view(ks, keyspace_name, view_name, base_table) ==
    IF \/ keyspace_name \notin DOMAIN ks
       \/ base_table \notin DOMAIN ks[keyspace_name].tables
       \/ view_name \in DOMAIN ks[keyspace_name].views
    THEN Invalid(ks)
    ELSE update_system_schema(
            [ks EXCEPT ![keyspace_name].views =
                Put(@, view_name, [base_table |-> base_table, where_clause |-> ""])])

handle_drop_view(ks, keyspace_name, view_name, if_exists) ==
    IF \/ keyspace_name \notin DOMAIN ks
       \/ view_name \notin DOMAIN ks[keyspace_name].views
    THEN IF if_exists THEN NoChange(ks) ELSE Invalid(ks)
    ELSE update_system_schema(
            [ks EXCEPT ![keyspace_name].views = Remove(@, view_name)])

----------------------------------------------------------------------------
(* The statements a session may execute. *)

UsingOptions ==
    LET ttls == {NoUsing} \cup {UsingTtl(n) : n \in 1..MaxTtl}
    IN  ttls \cup {UsingTimestamp(u, ts) : u \in ttls, ts \in 1..MaxTs}

IdEquals == {c \in CmpConds : c.col = "id" /\ c.op = "="}

(* WHERE clauses of the predicate specification: one predicate, or an      *)
(* equality on the primary key joined by AND with a predicate on v.        *)
WhereClauses ==
    {<<c>> : c \in Conds}
        \cup {<<c1, c2>> : c1 \in IdEquals, c2 \in {c \in Conds : c.col = "v"}}

(* WHERE clauses of the write-path specification: one predicate on the     *)
(* primary key, an equality or a range.                                    *)
KeyWhereClauses == {<<c>> : c \in {k \in CmpConds : k.col = "id" /\ k.op \in {"=", ">="}}}

Execute(stmt, out) ==
    /\ pc = "idle"
    /\ pc' = "done"
    /\ Len(out.data) <= MaxRows
    /\ data' = out.data
    /\ result' = out.result
    /\ pre' = data
    /\ last' = stmt
    /\ UNCHANGED <<now, previous, keyspaces, pre_keyspaces, session>>

Insert(id, v, using, lwt) ==
    Execute(Stmt("insert", id, v, <<>>, using, lwt),
            handle_insert_into(data, now, id, v, using, lwt))

Update(v, where, using, lwt) ==
    Execute(Stmt("update", None, v, where, using, lwt),
            handle_update(data, now, v, where, using, lwt))

Delete(where, lwt) ==
    Execute(Stmt("delete", None, None, where, NoUsing, lwt),
            handle_delete_from(data, now, where, lwt))

StmtSelect(where, parameters) ==
    [op |-> "select", id |-> None, v |-> None, where |-> where,
     using |-> NoUsing, lwt |-> "none", parameters |-> parameters]

Select(where, parameters) ==
    Execute(StmtSelect(where, parameters),
            handle_select_from(data, where, parameters))

(* MockSession.__init__ with no keyspace given; "" stands for None. *)
NewSession == [keyspace |-> "", is_shutdown |-> FALSE, prepared_statements |-> 0]

Init ==
    /\ data = <<>>
    /\ now = Epoch
    /\ pc = "idle"
    /\ pre = <<>>
    /\ last = NoStmt
    /\ result = <<>>
    /\ previous = NoStmt
    /\ keyspaces = InitialKeyspaces
    /\ pre_keyspaces = InitialKeyspaces
    /\ session = NewSession

(* The caller takes the result; the session is ready for the next statement. *)
Return ==
    /\ pc = "done"
    /\ pc' = "idle"
    /\ previous' =
            IF /\ last.op = "insert" /\ last.lwt = "if_not_exists"
               /\ result = <<[applied |-> TRUE]>>
            THEN last ELSE NoStmt
    /\ pre' = <<>>
    /\ last' = NoStmt
    /\ result' = <<>>
    /\ pre_keyspaces' = keyspaces
    /\ UNCHANGED <<data, now, keyspaces, session>>

(* Time passes between two statements. *)
Tick ==
    /\ pc = "idle"
    /\ now < Epoch + MaxTime
    /\ now' = now + 1
    /\ previous' = NoStmt
    /\ UNCHANGED <<data, pc, pre, last, result, keyspaces, pre_keyspaces, session>>

InsertAny ==
    \E id \in Keys, v \in Vals, using \in UsingOptions, lwt \in LwtTypes :
        Insert(id, v, using, lwt)

UpdateByKey ==
    \E v \in Vals, where \in KeyWhereClauses, using \in UsingOptions,
       lwt \in LwtTypes :
        Update(v, where, using, lwt)

DeleteByKey ==
    \E where \in KeyWhereClauses, lwt \in LwtTypes : Delete(where, lwt)

ParameterLists == UNION {[1..n -> Keys] : n \in 0..MaxParams}

KeyPlaceholderClauses ==
    {<<c>> : c \in {k \in PlaceholderConds : k.col = "id" /\ k.op = "="}}

(* SELECT by key: the operand written in the statement, or a placeholder  *)
(* executed with every parameter list, the empty one included.             *)
SelectByKey ==
    \/ \E where \in KeyWhereClauses \cup {<<>>} : Select(where, <<>>)
    \/ \E where \in KeyPlaceholderClauses, parameters \in ParameterLists :
            Select(where, parameters)

Next ==
    InsertAny \/ UpdateByKey \/ DeleteByKey \/ SelectByKey \/ Return \/ Tick

Spec == Init /\ [][Next]_vars

(* The predicate specification: plain INSERTs, then UPDATE and DELETE      *)
(* under every WHERE clause of WhereClauses, at one clock reading.         *)
InsertPlain == \E id \in Keys, v \in Vals : Insert(id, v, NoUsing, "none")

UpdateWhere ==
    \E v \in Vals, where \in WhereClauses : Update(v, where, NoUsing, "none")

DeleteWhere == \E where \in WhereClauses : Delete(where, "none")

NextWhere ==
    InsertPlain \/ UpdateWhere \/ DeleteWhere \/ Return

SpecWhere == Init /\ [][NextWhere]_vars

(* The conditional-write specification: INSERTs with and without TTL, and *)
(* INSERT, UPDATE and DELETE under every IF clause; DELETE also without a  *)
(* WHERE clause, with placeholders and with parameters.                    *)
StmtIf(op, id, v, where, using, lwt, parameters, lwt_conditions) ==
    [op |-> op, id |-> id, v |-> v, where |-> where, using |-> using,
     lwt |-> lwt, parameters |-> parameters, lwt_conditions |-> lwt_conditions]

(* IF <conditions>: one comparison on the regular column. *)
IfConditions == {<<c>> : c \in {k \in CmpConds : k.col = "v" /\ k.op \in {"=", ">"}}}

IfClauses ==
    {[type |-> ty, conditions |-> <<>>] : ty \in {"if_not_exists", "if_exists"}}
        \cup {[type |-> "conditions", conditions |-> cs] : cs \in IfConditions}

(* WHERE clauses of the conditional-write specification: one predicate on  *)
(* the primary key.                                                        *)
IfWhereClauses ==
    {<<c>> : c \in {k \in CmpConds : k.col = "id" /\ k.op \in {"=", "!=", ">="}}}

(* WHERE clauses of a DELETE: none, one predicate, or one predicate whose  *)
(* operand is a placeholder.                                               *)
DeleteWhereClauses ==
    {<<>>} \cup IfWhereClauses
        \cup {<<c>> : c \in {k \in PlaceholderConds : k.col = "id"}}

InsertTtl ==
    \E id \in Keys, v \in Vals,
       using \in {NoUsing} \cup {UsingTtl(n) : n \in 1..MaxTtl} :
        Insert(id, v, using, "none")

InsertIf ==
    \E id \in Keys, v \in Vals, clause \in IfClauses :
        Execute(StmtIf("insert", id, v, <<>>, NoUsing, clause.type, <<>>,
                       clause.conditions),
                IF clause.type = "conditions"
                THEN insert_conditions(data, now, id, v, NoUsing, clause.conditions)
                ELSE handle_insert_into(data, now, id, v, NoUsing, clause.type))

UpdateIf ==
    \E v \in Vals, where \in IfWhereClauses, clause \in IfClauses :
        Execute(StmtIf("update", None, v, where, NoUsing, clause.type, <<>>,
                       clause.conditions),
                IF clause.type = "conditions"
                THEN update_conditions(data, now, v, where, NoUsing,
                                       clause.conditions)
                ELSE handle_update(data, now, v, where, NoUsing, clause.type))

DeleteIf ==
    \E where \in DeleteWhereClauses, parameters \in ParameterLists,
       clause \in IfClauses \cup {[type |-> "none", conditions |-> <<>>]} :
        Execute(StmtIf("delete", None, None, where, NoUsing, clause.type,
                       parameters, clause.conditions),
                delete_from_bound(data, now, where, parameters, clause.type,
                                  clause.conditions))

NextIf == InsertTtl \/ InsertIf \/ UpdateIf \/ DeleteIf \/ Return \/ Tick

SpecIf == Init /\ [][NextIf]_vars

(* The TTL specification: INSERTs that give rows an expiry, time passing,  *)
(* and INSERT and UPDATE with USING TTL NegativeTtl, with and without USING *)
(* TIMESTAMP, under every IF clause.                                       *)
NegativeTtlOptions ==
    {UsingTtl(NegativeTtl)}
        \cup {UsingTimestamp(UsingTtl(NegativeTtl), ts) : ts \in 1..MaxTs}

NoClause == [type |-> "none", conditions |-> <<>>]

InsertNegativeTtl ==
    \E id \in Keys, v \in Vals, using \in NegativeTtlOptions,
       clause \in IfClauses \cup {NoClause} :
        Execute(StmtIf("insert", id, v, <<>>, using, clause.type, <<>>,
                       clause.conditions),
                IF clause.type = "conditions"
                THEN insert_conditions(data, now, id, v, using, clause.conditions)
                ELSE handle_insert_into(data, now, id, v, using, clause.type))

UpdateNegativeTtl ==
    \E v \in Vals, where \in IfWhereClauses, using \in NegativeTtlOptions,
       clause \in IfClauses \cup {NoClause} :
        Execute(StmtIf("update", None, v, where, using, clause.type, <<>>,
                       clause.conditions),
                IF clause.type = "conditions"
                THEN update_conditions(data, now, v, where, using,
                                       clause.conditions)
                ELSE handle_update(data, now, v, where, using, clause.type))

NextTtl == InsertTtl \/ InsertNegativeTtl \/ UpdateNegativeTtl \/ Return \/ Tick

SpecTtl == Init /\ [][NextTtl]_vars

(* The catalog specification: the definition statements over two          *)
(* keyspace names and one table, index and view name, and INSERTs into the *)
(* tables keyed by id alone.                                               *)
KeyspaceNames == {"ks1", "ks2"}

TableNames == {"t1"}

IndexNames == {"idx1"}

ViewNames == {"mv1"}

UserColumns == <<Column("id", "int"), Column("v", "int"), Column("w", "int")>>

AddedColumns == {Column("x", "text")}

(* id int PRIMARY KEY;  PRIMARY KEY (id, v);  PRIMARY KEY ((id, v), w);    *)
(* PRIMARY KEY ((id, v));  PRIMARY KEY (id, (v, w));                       *)
(* PRIMARY KEY ((id), (v, w)).                                             *)
PrimaryKeyClauses ==
    {[inline |-> <<"id">>, pk |-> <<>>],
     [inline |-> <<>>, pk |-> <<KeyColumn("id"), KeyColumn("v")>>],
     [inline |-> <<>>, pk |-> <<KeyGroup(<<"id", "v">>), KeyColumn("w")>>],
     [inline |-> <<>>, pk |-> <<KeyGroup(<<"id", "v">>)>>],
     [inline |-> <<>>, pk |-> <<KeyColumn("id"), KeyGroup(<<"v", "w">>)>>],
     [inline |-> <<>>, pk |-> <<KeyGroup(<<"id">>), KeyGroup(<<"v", "w">>)>>]}

Ddl(op, keyspace_name, name, if_exists, arg) ==
    [op |-> op, keyspace_name |-> keyspace_name, name |-> name,
     if_exists |-> if_exists, arg |-> arg]

ExecuteDdl(stmt, out) ==
    /\ pc = "idle"
    /\ pc' = "done"
    /\ keyspaces' = out.keyspaces
    /\ result' = out.result
    /\ pre_keyspaces' = keyspaces
    /\ last' = stmt
    /\ UNCHANGED <<data, now, pre, previous, session>>

CreateKeyspace ==
    \E k \in KeyspaceNames \cup {"system"} :
        ExecuteDdl(Ddl("create_keyspace", k, k, FALSE, <<>>),
                   handle_create_keyspace(keyspaces, k))

CreateTable ==
    \E k \in KeyspaceNames, n \in TableNames, c \in PrimaryKeyClauses :
        ExecuteDdl(Ddl("create_table", k, n, FALSE, c),
                   handle_create_table(keyspaces, k, n, UserColumns, c.inline,
                                       pk_def(c.pk)))

DropTable ==
    \E k \in KeyspaceNames, n \in TableNames, if_exists \in BOOLEAN :
        ExecuteDdl(Ddl("drop_table", k, n, if_exists, <<>>),
                   handle_drop_table(keyspaces, k, n, if_exists))

DropKeyspace ==
    \E k \in KeyspaceNames \cup {"system"}, if_exists \in BOOLEAN :
        ExecuteDdl(Ddl("drop_keyspace", k, k, if_exists, <<>>),
                   handle_drop_keyspace(keyspaces, k, if_exists))

CreateIndex ==
    \E k \in KeyspaceNames, n \in TableNames, i \in IndexNames :
        ExecuteDdl(Ddl("create_index", k, i, FALSE, n),
                   handle_create_index(keyspaces, i, k, n, "v"))

DropIndex ==
    \E i \in IndexNames, if_exists \in BOOLEAN :
        ExecuteDdl(Ddl("drop_index", "", i, if_exists, <<>>),
                   handle_drop_index(keyspaces, i, if_exists))

AlterTable ==
    \E k \in KeyspaceNames, n \in TableNames, c \in AddedColumns :
        ExecuteDdl(Ddl("alter_table", k, n, FALSE, c),
                   handle_alter_table(keyspaces, k, n, c.name, c.type))

CreateView ==
    \E k \in KeyspaceNames, n \in TableNames, w \in ViewNames :
        ExecuteDdl(Ddl("create_view", k, w, FALSE, n),
                   handle_create_view(keyspaces, k, w, n))

DropView ==
    \E k \in KeyspaceNames, w \in ViewNames, if_exists \in BOOLEAN :
        ExecuteDdl(Ddl("drop_view", k, w, if_exists, <<>>),
                   handle_drop_view(keyspaces, k, w, if_exists))

(* INSERT INTO k.n (id, v) VALUES (id, id) on a table whose key is id     *)
(* alone.                                                                  *)
InsertRow ==
    \E k \in KeyspaceNames, n \in TableNames, id \in Keys, v \in Vals :
        /\ v = id
        /\ k \in DOMAIN keyspaces
        /\ n \in DOMAIN keyspaces[k].tables
        /\ keyspaces[k].tables[n].primary_key.all = <<"id">>
        /\ Len(keyspaces[k].tables[n].data) < MaxCatalogRows
        /\ ExecuteDdl(Ddl("insert_row", k, n, FALSE, <<id, v>>),
                      [keyspaces |->
                            [keyspaces EXCEPT ![k].tables[n].data =
                                handle_insert_into(@, now, id, v, NoUsing,
                                                   "none").data],
                       result |-> <<>>])

NextCatalog ==
    \/ CreateKeyspace \/ CreateTable \/ DropTable \/ DropKeyspace
    \/ CreateIndex \/ DropIndex \/ AlterTable \/ CreateView \/ DropView
    \/ InsertRow \/ Return

SpecCatalog == Init /\ [][NextCatalog]_vars

----------------------------------------------------------------------------
(* Aggregate SELECT without GROUP BY.  A select item is an aggregate       *)
(* function, its argument ("*", "1" or a column) and the DISTINCT flag.    *)

Aggregate(func, arg, distinct) ==
    [func |-> func, arg |-> arg, distinct |-> distinct]

RECURSIVE SumSeq(_)
SumSeq(values) ==
    IF values = <<>> THEN 0 ELSE values[1] + SumSeq(Tail(values))

MinSeq(values) ==
    CHOOSE x \in SeqRange(values) : \A y \in SeqRange(values) : x <= y

MaxSeq(values) ==
    CHOOSE x \in SeqRange(values) : \A y \in SeqRange(values) : x >= y

(* The argument's values in row order, null and absent ones left out. *)
ArgumentValues(filtered_data, argument) ==
    LET present == SelectSeq(filtered_data,
                             LAMBDA row : RowGet(row, argument) # None)
    IN  [i \in 1..Len(present) |-> RowGet(present[i], argument)]

(* The variant that reads the argument of every row, nulls included. *)
ArgumentValuesAll(filtered_data, argument) ==
    [i \in 1..Len(filtered_data) |-> RowGet(filtered_data[i], argument)]

(* A value of the result row: Python's None, or a number.  sum(values) /   *)
(* len(values) is a true division, so a number is kept as a numerator and  *)
(* a denominator; an integer has the denominator 1.                        *)
NullValue == [null |-> TRUE, num |-> 0, den |-> 1]

Quotient(num, den) == [null |-> FALSE, num |-> num, den |-> den]

Number(n) == Quotient(n, 1)

aggregate_of(values, filtered_data, item) ==
    CASE item.func = "count" ->
            IF item.distinct THEN Number(Cardinality(SeqRange(values)))
            ELSE IF item.arg \in {"*", "1"} THEN Number(Len(filtered_data))
            ELSE Number(Len(values))
      [] item.func = "sum" ->
            IF values # <<>> THEN Number(SumSeq(values)) ELSE Number(0)
      [] item.func = "min" ->
            IF values # <<>> THEN Number(MinSeq(values)) ELSE NullValue
      [] item.func = "max" ->
            IF values # <<>> THEN Number(MaxSeq(values)) ELSE NullValue
      [] OTHER ->
            IF values # <<>> THEN Quotient(SumSeq(values), Len(values))
            ELSE NullValue

compute_aggregate_with_nulls(filtered_data, item) ==
    aggregate_of(ArgumentValuesAll(filtered_data, item.arg), filtered_data, item)

compute_aggregate(filtered_data, item) ==
    aggregate_of(ArgumentValues(filtered_data, item.arg), filtered_data, item)

(* One Row whose values are the aggregates, in the order of the items. *)
select_with_aggregates(filtered_data, select_items) ==
    <<[values |-> [i \in 1..Len(select_items) |->
                        compute_aggregate(filtered_data, select_items[i])]]>>

handle_select_aggregates(d, where, select_items) ==
    [data |-> d,
     result |-> select_with_aggregates(apply_where_filters(d, where),
                                       select_items)]

(* The aggregate specification: INSERTs that give the regular column a     *)
(* value or leave it out, and SELECTs of one aggregate, or of all of them, *)
(* over the whole table or under a predicate on the primary key.           *)
AggregateItems ==
    {Aggregate("count", "*", FALSE), Aggregate("count", "1", FALSE),
     Aggregate("count", "v", FALSE), Aggregate("count", "v", TRUE),
     Aggregate("sum", "v", FALSE), Aggregate("min", "v", FALSE),
     Aggregate("max", "v", FALSE), Aggregate("avg", "v", FALSE)}

SelectLists ==
    {<<item>> : item \in AggregateItems}
        \cup {<<Aggregate("sum", "v", FALSE), Aggregate("min", "v", FALSE),
                Aggregate("max", "v", FALSE)>>}

StmtAggregate(where, select_items) ==
    [op |-> "select_aggregate", where |-> where, select_items |-> select_items]

InsertNullable ==
    \E id \in Keys, v \in Vals \cup {None} : Insert(id, v, NoUsing, "none")

SelectAggregate ==
    \E where \in KeyWhereClauses \cup {<<>>}, select_items \in SelectLists :
        Execute(StmtAggregate(where, select_items),
                handle_select_aggregates(data, where, select_items))

NextAggregate == InsertNullable \/ SelectAggregate \/ Return

SpecAggregate == Init /\ [][NextAggregate]_vars

----------------------------------------------------------------------------
(* The SELECT pipeline: select items, DISTINCT, WHERE with parameters,     *)
(* GROUP BY, HAVING, ORDER BY and LIMIT.  A result row is the sequence of  *)
(* its values; a column value is an integer or None, an aggregate a value  *)
(* as compute_aggregate gives it.                                          *)

SchemaColumns == <<"id", "v">>

Item(type, name, func, arg, distinct) ==
    [type |-> type, name |-> name, func |-> func, arg |-> arg,
     distinct |-> distinct]

Wildcard == Item("wildcard", "", "", "", FALSE)

ColumnItem(name) == Item("column", name, "", "", FALSE)

AggregateItem(func, arg, distinct) == Item("aggregate", "", func, arg, distinct)

HavingCondition(func, arg, operator, value) ==
    [func |-> func, arg |-> arg, distinct |-> FALSE, operator |-> operator,
     value |-> value]

(* func(DISTINCT arg) operator value *)
HavingDistinct(func, arg, operator, value) ==
    [HavingCondition(func, arg, operator, value) EXCEPT !.distinct = TRUE]

OrderBy(col, dir) == [col |-> col, dir |-> dir]

NoLimit == [kind |-> "none", n |-> None]

LimitLiteral(n) == [kind |-> "literal", n |-> n]

LimitPlaceholder == [kind |-> "placeholder", n |-> None]

Query(select_items, is_distinct, where, group_by, having, order_by, limit, parameters) ==
    [op |-> "query", select_items |-> select_items,
     is_distinct |-> is_distinct, where |-> where, group_by |-> group_by,
     having |-> having, order_by |-> order_by, limit |-> limit,
     parameters |-> parameters]

ResultRow(values) == [values |-> values]

(* The limit value: Python's None, or the integer int() reads, which for  *)
(* a bound parameter may be negative.                                      *)
NoneLimit == [is_none |-> TRUE, n |-> 0]

IntLimit(n) == [is_none |-> FALSE, n |-> n]

resolve_limit_value(limit, positional_params) ==
    CASE limit.kind = "none" -> [ok |-> TRUE, value |-> NoneLimit]
      [] limit.kind = "literal" -> [ok |-> TRUE, value |-> IntLimit(limit.n)]
      [] OTHER ->
            IF positional_params = <<>> THEN [ok |-> FALSE, value |-> NoneLimit]
            ELSE [ok |-> TRUE, value |-> IntLimit(positional_params[1])]

(* rows[:stop]: a negative stop counts from the end. *)
SliceTo(rows, stop) ==
    SubSeq(rows, 1,
           IF stop >= 0
           THEN (IF stop <= Len(rows) THEN stop ELSE Len(rows))
           ELSE (IF Len(rows) + stop >= 0 THEN Len(rows) + stop ELSE 0))

apply_limit(rows, limit_value) ==
    IF limit_value.is_none THEN rows ELSE SliceTo(rows, limit_value.n)

(* str.lower and str.upper on the names and keywords statements are        *)
(* written with.                                                           *)
lower(text) ==
    CASE text \in {"ID", "Id"} -> "id"
      [] text = "V" -> "v"
      [] text = "INT" -> "int"
      [] text = "ZZ" -> "zz"
      [] OTHER -> text

upper(text) ==
    CASE text \in {"asc", "Asc"} -> "ASC"
      [] text \in {"desc", "Desc"} -> "DESC"
      [] text = "down" -> "DOWN"
      [] OTHER -> text

(* __resolve_column_name: the first name of the schema that equals the     *)
(* column when both are lower-cased.                                       *)
resolve_column_name(column) ==
    LET names == SelectSeq(SchemaColumns,
                           LAMBDA name : lower(name) = lower(column))
    IN  IF names = <<>> THEN [ok |-> FALSE, name |-> column]
        ELSE [ok |-> TRUE, name |-> names[1]]

(* __parse_select_items raises on an empty select list and on an item it   *)
(* cannot read: "*" next to other items, a column that is not in the       *)
(* schema, an aggregate other than COUNT over "*" or "1", DISTINCT outside *)
(* COUNT of a column.                                                      *)
SelectItemsRaise(select_items) ==
    \/ select_items = <<>>
    \/ Len(select_items) > 1 /\ Wildcard \in SeqRange(select_items)
    \/ \E item \in SeqRange(select_items) :
        \/ item.type = "column" /\ ~resolve_column_name(item.name).ok
        \/ /\ item.type = "aggregate"
           /\ \/ item.distinct /\ (item.func # "count" \/ item.arg \in {"*", "1"})
              \/ item.func # "count" /\ item.arg \in {"*", "1"}
              \/ item.arg \notin {"*", "1"} /\ ~resolve_column_name(item.arg).ok

(* The items it returns carry the names of the schema. *)
parse_select_items(select_items) ==
    [i \in 1..Len(select_items) |->
        CASE select_items[i].type = "column" ->
                [select_items[i] EXCEPT
                    !.name = resolve_column_name(select_items[i].name).name]
          [] /\ select_items[i].type = "aggregate"
             /\ select_items[i].arg \notin {"*", "1"} ->
                [select_items[i] EXCEPT
                    !.arg = resolve_column_name(select_items[i].arg).name]
          [] OTHER -> select_items[i]]

GroupByRaises(group_by) ==
    \E column \in SeqRange(group_by) : ~resolve_column_name(column).ok

parse_group_by(group_by) ==
    [i \in 1..Len(group_by) |-> resolve_column_name(group_by[i]).name]

(* __parse_having_conditions: HAVING needs GROUP BY; DISTINCT is read      *)
(* with COUNT of a column only.                                            *)
HavingRaises(having, group_by) ==
    /\ having # <<>>
    /\ \/ group_by = <<>>
       \/ \E c \in SeqRange(having) :
            \/ c.distinct /\ (c.func # "count" \/ c.arg \in {"*", "1"})
            \/ c.func # "count" /\ c.arg \in {"*", "1"}
            \/ c.arg \notin {"*", "1"} /\ ~resolve_column_name(c.arg).ok

parse_having_conditions(having) ==
    [i \in 1..Len(having) |->
        IF having[i].arg \in {"*", "1"} THEN having[i]
        ELSE [having[i] EXCEPT !.arg = resolve_column_name(having[i].arg).name]]

HasType(select_items, type) ==
    \E item \in SeqRange(select_items) : item.type = type

(* The combinations handle_select_from rejects before it filters. *)
CombinationRaises(q) ==
    LET has_aggregates == HasType(q.select_items, "aggregate")
        has_columns == HasType(q.select_items, "column")
        has_wildcard == HasType(q.select_items, "wildcard")
    IN  \/ has_wildcard /\ (has_aggregates \/ q.group_by # <<>> \/ q.is_distinct)
        \/ q.is_distinct /\ has_aggregates
        \/ has_aggregates /\ has_columns /\ q.group_by = <<>>
        \/ q.is_distinct /\ q.group_by # <<>>
        \/ /\ q.group_by # <<>>
           /\ \E item \in SeqRange(q.select_items) :
                \/ item.type = "column" /\ item.name \notin SeqRange(q.group_by)
                \/ item.type = "wildcard"
        \/ has_aggregates /\ q.order_by # <<>>

compare_values(left, operator, right) ==
    IF left.null THEN operator = "!="
    ELSE CASE operator = "="  -> left.num = right * left.den
           [] operator = "!=" -> left.num # right * left.den
           [] operator = ">"  -> left.num > right * left.den
           [] operator = "<"  -> left.num < right * left.den
           [] operator = ">=" -> left.num >= right * left.den
           [] OTHER -> left.num <= right * left.den

(* The variant that lets every group pass. *)
check_having_conditions_ungrouped(group_rows, conditions) == TRUE

check_having_conditions(group_rows, conditions) ==
    \A c \in SeqRange(conditions) :
        compare_values(compute_aggregate(group_rows, c), c.operator, c.value)

deduplicate_rows_none(rows) == rows

RECURSIVE deduplicate_from(_, _)
deduplicate_from(rows, unique_rows) ==
    IF rows = <<>> THEN unique_rows
    ELSE IF Head(rows) \in SeqRange(unique_rows)
    THEN deduplicate_from(Tail(rows), unique_rows)
    ELSE deduplicate_from(Tail(rows), Append(unique_rows, Head(rows)))

deduplicate_rows(rows) == deduplicate_from(rows, <<>>)

GroupKey(row, group_by_columns) ==
    [i \in 1..Len(group_by_columns) |-> RowGet(row, group_by_columns[i])]

(* The keys of the groups in the order the dictionary holds them: that of  *)
(* their first row.                                                        *)
group_rows(filtered_data, group_by_columns) ==
    deduplicate_from([i \in 1..Len(filtered_data) |->
                        GroupKey(filtered_data[i], group_by_columns)], <<>>)

RowsOfGroup(filtered_data, group_by_columns, key) ==
    SelectSeq(filtered_data, LAMBDA row : GroupKey(row, group_by_columns) = key)

ColumnIndex(group_by_columns, name) ==
    CHOOSE i \in 1..Len(group_by_columns) :
        /\ group_by_columns[i] = name
        /\ \A j \in 1..(i - 1) : group_by_columns[j] # name

GroupOutput(filtered_data, select_items, group_by_columns, key) ==
    ResultRow([i \in 1..Len(select_items) |->
        IF select_items[i].type = "column"
        THEN key[ColumnIndex(group_by_columns, select_items[i].name)]
        ELSE compute_aggregate(
                RowsOfGroup(filtered_data, group_by_columns, key),
                select_items[i])])

select_grouped_aggregates(filtered_data, select_items, group_by_columns, having_conditions) ==
    LET keys == group_rows(filtered_data, group_by_columns)
        kept == SelectSeq(keys, LAMBDA key :
                    check_having_conditions(
                        RowsOfGroup(filtered_data, group_by_columns, key),
                        having_conditions))
    IN  [i \in 1..Len(kept) |->
            GroupOutput(filtered_data, select_items, group_by_columns, kept[i])]

select_group_by_only(filtered_data, select_items, group_by_columns) ==
    LET keys == group_rows(filtered_data, group_by_columns)
    IN  [i \in 1..Len(keys) |->
            ResultRow([j \in 1..Len(select_items) |->
                keys[i][ColumnIndex(group_by_columns, select_items[j].name)]])]

select_item_columns(filtered_data, select_items) ==
    LET names ==
            IF select_items = <<Wildcard>> THEN SchemaColumns
            ELSE [j \in 1..Len(select_items) |-> select_items[j].name]
    IN  [i \in 1..Len(filtered_data) |->
            ResultRow([j \in 1..Len(names) |-> RowGet(filtered_data[i], names[j])])]

(* sorted(..., key, reverse): a stable sort; in either direction rows of   *)
(* equal key keep their order.                                             *)
RECURSIVE SortedInsert(_, _, _, _)
SortedInsert(sorted, row, col, descending) ==
    IF sorted = <<>> THEN <<row>>
    ELSE IF \/ ~descending /\ RowGet(row, col) < RowGet(Head(sorted), col)
            \/ descending /\ RowGet(row, col) > RowGet(Head(sorted), col)
    THEN <<row>> \o sorted
    ELSE <<Head(sorted)>> \o SortedInsert(Tail(sorted), row, col, descending)

RECURSIVE SortedRows(_, _, _)
SortedRows(rows, col, descending) ==
    IF rows = <<>> THEN <<>>
    ELSE SortedInsert(SortedRows(SubSeq(rows, 1, Len(rows) - 1), col, descending),
                      rows[Len(rows)], col, descending)

(* __apply_order_by: the direction is upper-cased and must be ASC or DESC; *)
(* the column is looked for in the schema as it is written, and only when  *)
(* there are rows; comparing None with anything raises TypeError in        *)
(* sorted.                                                                 *)
apply_order_by(filtered_data, order) ==
    LET order_dir == IF order.dir = "" THEN "ASC" ELSE upper(order.dir)
    IN  IF order_dir \notin {"ASC", "DESC"}
        THEN [error |-> "InvalidRequest", rows |-> <<>>]
        ELSE IF filtered_data # <<>> /\ order.col \notin SeqRange(SchemaColumns)
        THEN [error |-> "InvalidRequest", rows |-> <<>>]
        ELSE IF /\ Len(filtered_data) >= 2
                /\ \E row \in SeqRange(filtered_data) :
                        RowGet(row, order.col) = None
        THEN [error |-> "TypeError", rows |-> <<>>]
        ELSE IF filtered_data = <<>> THEN [error |-> "", rows |-> <<>>]
        ELSE [error |-> "",
              rows |-> SortedRows(filtered_data, order.col, order_dir = "DESC")]

(* handle_select_from *)
select_from(d, q) ==
    LET bound == select_bind_where(q.where, q.parameters)
        limit == resolve_limit_value(q.limit, bound.rest)
        select_items == parse_select_items(q.select_items)
        group_by_columns == parse_group_by(q.group_by)
        having_conditions == parse_having_conditions(q.having)
        has_aggregates == HasType(select_items, "aggregate")
        filtered_data == apply_where_filters(d, bound.where)
        ordered ==
            IF q.order_by = <<>> THEN [error |-> "", rows |-> filtered_data]
            ELSE apply_order_by(filtered_data, q.order_by[1])
    IN  IF ~bound.ok THEN Raised(d, "ValueError")
        ELSE IF ~limit.ok THEN Raised(d, "InvalidRequest")
        ELSE IF \/ SelectItemsRaise(q.select_items)
                \/ GroupByRaises(q.group_by)
                \/ HavingRaises(q.having, q.group_by)
        THEN Raised(d, "InvalidRequest")
        ELSE IF CombinationRaises([q EXCEPT !.select_items = select_items,
                                           !.group_by = group_by_columns])
        THEN Raised(d, "InvalidRequest")
        ELSE IF has_aggregates
        THEN IF q.limit.kind # "none" THEN Raised(d, "InvalidRequest")
             ELSE IF group_by_columns = <<>>
             THEN [data |-> d,
                   result |-> select_with_aggregates(filtered_data,
                                                     select_items)]
             ELSE [data |-> d,
                   result |-> select_grouped_aggregates(filtered_data,
                                select_items, group_by_columns,
                                having_conditions)]
        ELSE IF group_by_columns # <<>>
        THEN IF q.order_by # <<>> THEN Raised(d, "InvalidRequest")
             ELSE [data |-> d,
                   result |-> apply_limit(
                        select_group_by_only(filtered_data, select_items,
                                             group_by_columns), limit.value)]
        ELSE IF q.is_distinct
        THEN IF q.order_by # <<>> THEN Raised(d, "InvalidRequest")
             ELSE [data |-> d,
                   result |-> apply_limit(
                        deduplicate_rows(
                            select_item_columns(filtered_data, select_items)),
                        limit.value)]
        ELSE IF ordered.error # "" THEN Raised(d, ordered.error)
        ELSE [data |-> d,
              result |-> select_item_columns(
                            apply_limit(ordered.rows, limit.value),
                            select_items)]

(* The query specification: INSERTs of up to MaxQueryRows rows whose       *)
(* regular column holds a value or none, and the SELECTs of Queries.       *)
MaxQueryRows == 3

QueryKeys == 1..MaxQueryRows

QueryWhereClauses ==
    {<<>>} \cup {<<c>> : c \in {k \in CmpConds : k.col = "id" /\ k.op \in {"=", ">="}}}

(* SELECT <columns of g and aggregates> ... GROUP BY g [HAVING h] *)
GroupSelectLists ==
    {<<ColumnItem("v"), AggregateItem("count", "*", FALSE)>>,
     <<AggregateItem("sum", "id", FALSE), ColumnItem("v")>>,
     <<AggregateItem("max", "v", FALSE)>>,
     <<ColumnItem("v"), AggregateItem("avg", "id", FALSE)>>}

HavingClauses ==
    {<<>>,
     <<HavingCondition("count", "*", ">", 1)>>,
     <<HavingCondition("sum", "id", ">=", 3)>>,
     <<HavingCondition("min", "v", "=", 1)>>,
     <<HavingCondition("count", "*", ">", 1), HavingCondition("max", "id", ">", 2)>>}

GroupQueries ==
    {Query(select_items, FALSE, where, <<"v">>, having, <<>>, NoLimit, <<>>) :
        select_items \in GroupSelectLists, where \in {<<>>, <<[col |-> "id", op |-> ">=", vals |-> {2}]>>},
        having \in HavingClauses}

(* SELECT DISTINCT <columns> ... [LIMIT n | LIMIT %s] *)
MaxLimit == 2

DistinctQueries ==
    {Query(select_items, TRUE, where, <<>>, <<>>, <<>>, limit.limit,
           limit.parameters) :
        select_items \in {<<ColumnItem("v")>>, <<ColumnItem("v"), ColumnItem("id")>>},
        where \in {<<>>, <<[col |-> "id", op |-> ">=", vals |-> {2}]>>},
        limit \in {[limit |-> NoLimit, parameters |-> <<>>]}
            \cup {[limit |-> LimitLiteral(n), parameters |-> <<>>] : n \in 0..MaxLimit}
            \cup {[limit |-> LimitPlaceholder, parameters |-> <<n>>] : n \in 1..MaxLimit}}

(* The combinations a SELECT may not make, and columns the table has not. *)
CountAll == AggregateItem("count", "*", FALSE)

UnknownColumnClause == <<[col |-> "zz", op |-> "=", vals |-> {1}]>>

InvalidQueries ==
    {Query(<<Wildcard, CountAll>>, FALSE, <<>>, <<>>, <<>>, <<>>, NoLimit, <<>>),
     Query(<<Wildcard>>, FALSE, <<>>, <<"v">>, <<>>, <<>>, NoLimit, <<>>),
     Query(<<Wildcard>>, TRUE, <<>>, <<>>, <<>>, <<>>, NoLimit, <<>>),
     Query(<<CountAll>>, TRUE, <<>>, <<>>, <<>>, <<>>, NoLimit, <<>>),
     Query(<<ColumnItem("v")>>, TRUE, <<>>, <<"v">>, <<>>, <<>>, NoLimit, <<>>),
     Query(<<CountAll, ColumnItem("id")>>, FALSE, <<>>, <<>>, <<>>, <<>>, NoLimit, <<>>),
     Query(<<ColumnItem("id"), CountAll>>, FALSE, <<>>, <<"v">>, <<>>, <<>>, NoLimit, <<>>),
     Query(<<ColumnItem("id")>>, FALSE, <<>>, <<"v">>, <<>>, <<>>, NoLimit, <<>>),
     Query(<<CountAll>>, FALSE, <<>>, <<>>,
           <<HavingCondition("count", "*", ">", 1)>>, <<>>, NoLimit, <<>>),
     Query(<<ColumnItem("v")>>, FALSE, <<>>, <<>>,
           <<HavingCondition("count", "*", ">", 1)>>, <<>>, NoLimit, <<>>),
     Query(<<CountAll>>, FALSE, <<>>, <<>>, <<>>, <<OrderBy("id", "")>>, NoLimit, <<>>),
     Query(<<ColumnItem("v"), CountAll>>, FALSE, <<>>, <<"v">>, <<>>,
           <<OrderBy("v", "")>>, NoLimit, <<>>),
     Query(<<CountAll>>, FALSE, <<>>, <<>>, <<>>, <<>>, LimitLiteral(1), <<>>),
     Query(<<ColumnItem("v"), CountAll>>, FALSE, <<>>, <<"v">>, <<>>, <<>>,
           LimitLiteral(1), <<>>),
     Query(<<ColumnItem("zz")>>, FALSE, <<>>, <<>>, <<>>, <<>>, NoLimit, <<>>),
     Query(<<AggregateItem("sum", "zz", FALSE)>>, FALSE, <<>>, <<>>, <<>>, <<>>,
           NoLimit, <<>>),
     Query(<<CountAll>>, FALSE, <<>>, <<"zz">>, <<>>, <<>>, NoLimit, <<>>),
     Query(<<CountAll>>, FALSE, <<>>, <<"v">>,
           <<HavingCondition("sum", "zz", ">", 1)>>, <<>>, NoLimit, <<>>),
     Query(<<>>, FALSE, <<>>, <<>>, <<>>, <<>>, NoLimit, <<>>),
     Query(<<CountAll>>, FALSE, <<>>, <<"v">>,
           <<HavingDistinct("sum", "v", ">", 1)>>, <<>>, NoLimit, <<>>),
     Query(<<CountAll>>, FALSE, <<>>, <<"v">>,
           <<HavingDistinct("count", "*", ">", 1)>>, <<>>, NoLimit, <<>>),
     Query(<<Wildcard>>, FALSE, UnknownColumnClause, <<>>, <<>>, <<>>, NoLimit, <<>>),
     Query(<<Wildcard>>, FALSE, <<>>, <<>>, <<>>, <<OrderBy("zz", "")>>, NoLimit, <<>>)}

(* SELECT * ... [WHERE ...] ORDER BY c [ASC | DESC | desc | DOWN] *)
OrderQueries ==
    {Query(<<Wildcard>>, FALSE, where, <<>>, <<>>, <<OrderBy(col, dir)>>,
           NoLimit, <<>>) :
        where \in QueryWhereClauses, col \in {"id", "v", "zz"},
        dir \in {"", "ASC", "DESC", "desc", "DOWN"}}

(* Names written in another case than the schema has them:                 *)
(* SELECT ID;  SELECT V, ID;  SELECT DISTINCT V;  SELECT sum(V);           *)
(* SELECT V, sum(ID) ... GROUP BY V HAVING sum(ID) >= 3;                   *)
(* SELECT v, count(DISTINCT id) ... GROUP BY v HAVING count(DISTINCT id)   *)
(* > 1.                                                                    *)
CaseQueries ==
    {Query(<<ColumnItem("ID")>>, FALSE, <<>>, <<>>, <<>>, <<>>, NoLimit, <<>>),
     Query(<<ColumnItem("V"), ColumnItem("ID")>>, FALSE, <<>>, <<>>, <<>>, <<>>,
           NoLimit, <<>>),
     Query(<<ColumnItem("V")>>, TRUE, <<>>, <<>>, <<>>, <<>>, NoLimit, <<>>),
     Query(<<AggregateItem("sum", "V", FALSE)>>, FALSE, <<>>, <<>>, <<>>, <<>>,
           NoLimit, <<>>),
     Query(<<ColumnItem("V"), AggregateItem("sum", "ID", FALSE)>>, FALSE, <<>>,
           <<"V">>, <<HavingCondition("sum", "ID", ">=", 3)>>, <<>>, NoLimit,
           <<>>),
     Query(<<ColumnItem("v"), AggregateItem("count", "id", TRUE)>>, FALSE, <<>>,
           <<"v">>, <<HavingDistinct("count", "id", ">", 1)>>, <<>>, NoLimit,
           <<>>)}

(* The parameter lists a SELECT is executed with; the parameter that       *)
(* LIMIT takes after the one of WHERE may be negative.                     *)
MaxNegativeLimit == 1

QueryParameters ==
    {<<>>} \cup {<<a>> : a \in QueryKeys}
           \cup {<<a, b>> : a \in QueryKeys,
                            b \in (-MaxNegativeLimit)..MaxLimit \ {0}}

(* SELECT * ... [ORDER BY id DESC] LIMIT %s with a negative parameter *)
NegativeLimitQueries ==
    {Query(<<Wildcard>>, FALSE, <<>>, <<>>, <<>>, order, LimitPlaceholder, <<b>>) :
        order \in {<<>>, <<OrderBy("id", "DESC")>>},
        b \in (-MaxNegativeLimit)..(-1)}

(* SELECT * ... [WHERE c <op> %s] [ORDER BY c] LIMIT n | LIMIT %s *)
LimitQueries ==
    {Query(<<Wildcard>>, FALSE, where, <<>>, <<>>, order, limit, parameters) :
        where \in {<<>>} \cup {<<c>> : c \in {k \in PlaceholderConds : k.op = "="}},
        order \in {<<>>, <<OrderBy("v", "DESC")>>, <<OrderBy("id", "DESC")>>,
                   <<OrderBy("v", "")>>},
        limit \in {LimitLiteral(n) : n \in 0..MaxLimit} \cup {LimitPlaceholder},
        parameters \in QueryParameters}

Queries ==
    GroupQueries \cup DistinctQueries \cup InvalidQueries \cup OrderQueries
        \cup CaseQueries \cup LimitQueries \cup NegativeLimitQueries

InsertQueryRow ==
    \E id \in QueryKeys, v \in Vals \cup {None} : Insert(id, v, NoUsing, "none")

SelectQuery == \E q \in Queries : Execute(q, select_from(data, q))

NextQuery == InsertQueryRow \/ SelectQuery \/ Return

SpecQuery == Init /\ [][NextQuery]_vars

----------------------------------------------------------------------------
(* The pyscylladb_mock package.  Its handlers keep no write metadata, read *)
(* no clock and purge nothing: a row they store carries its column values  *)
(* only, which in the row record of this module is a write timestamp of 0  *)
(* and no expiry.                                                          *)

PlainRow(id, v) == [id |-> id, v |-> v, ts |-> 0, exp |-> None]

(* parser/insert.py.  The statement names the columns id and v, or id only *)
(* when v is None; the values are the parameters when parameters are       *)
(* given, the literals of the statement otherwise.  The row is appended    *)
(* whatever the table holds: no row is looked up by its primary key.       *)
pyscylladb_mock_handle_insert_into(d, id, v, parameters) ==
    LET columns == IF v = None THEN <<"id">> ELSE <<"id", "v">>
        literals == IF v = None THEN <<id>> ELSE <<id, v>>
        values == IF parameters # <<>> THEN parameters ELSE literals
    IN  IF Len(columns) # Len(values) THEN Raised(d, "Exception")
        ELSE [data |-> Append(d, PlainRow(values[1],
                                          IF Len(values) = 2 THEN values[2]
                                          ELSE None)),
              result |-> <<>>]

(* parser/delete.py: the parameters are bound as in the DELETE handler of  *)
(* the write path, by the same lines of code.                              *)
pyscylladb_mock_handle_delete_from(d, where, parameters) ==
    LET bound == delete_bind_parameters(where, parameters)
        parsed_conditions == parse_where_clause(bound.where)
    IN  IF ~bound.ok THEN Raised(d, bound.error)
        ELSE IF bound.where = <<>> \/ parsed_conditions = <<>>
        THEN [data |-> d, result |-> <<>>]
        ELSE [data |-> SelectSeq(d, LAMBDA r :
                            ~check_row_conditions(r, parsed_conditions)),
              result |-> <<>>]

(* parser/select.py, SELECT * with or without WHERE. *)
pyscylladb_mock_handle_select_from(d, where) ==
    LET parsed_conditions == parse_where_clause(where)
        filtered_data ==
            IF where = <<>> THEN d
            ELSE SelectSeq(d, LAMBDA r : check_row_conditions(r, parsed_conditions))
    IN  [data |-> d,
         result |-> [i \in 1..Len(filtered_data) |-> RowValues(filtered_data[i])]]

(* _parser.py parses a WHERE clause with the comparison pattern alone: a   *)
(* predicate with IN, with != or with a placeholder is left out.           *)
parser_module_parse_conditions(where) ==
    SelectSeq(where, LAMBDA c :
        ~IsPlaceholder(c) /\ c.op \in {"=", "<", "<=", ">", ">="})

parser_module_handle_insert_into(d, id, v) ==
    [data |-> Append(d, PlainRow(id, v)), result |-> <<>>]

parser_module_handle_select_from(d, where) ==
    LET parsed_conditions == parser_module_parse_conditions(where)
        filtered_data ==
            IF where = <<>> \/ parsed_conditions = <<>> THEN d
            ELSE SelectSeq(d, LAMBDA r : check_row_conditions(r, parsed_conditions))
    IN  [data |-> d,
         result |-> [i \in 1..Len(filtered_data) |-> RowValues(filtered_data[i])]]

(* UPDATE ... SET v = <v> WHERE ...: check_row tests the equality          *)
(* predicates only; when no row was updated and the clause has an equality *)
(* predicate, a row made of the equality values and of v is appended.      *)
parser_module_handle_update(d, v, where) ==
    LET parsed_conditions == parser_module_parse_conditions(where)
        check_row(row) ==
            \A i \in 1..Len(parsed_conditions) :
                LET c == parsed_conditions[i]
                IN  c.op = "=" => RowGet(row, c.col) = Operand(c)
        rows_updated == Cardinality({i \in 1..Len(d) : check_row(d[i])})
        is_upsert == \E i \in 1..Len(parsed_conditions) :
                        parsed_conditions[i].op = "="
    IN  IF rows_updated # 0
        THEN [data |-> [i \in 1..Len(d) |->
                            IF check_row(d[i]) THEN [d[i] EXCEPT !.v = v]
                            ELSE d[i]],
              result |-> <<>>]
        ELSE IF is_upsert
        THEN [data |-> Append(d, PlainRow(EqualityValue(parsed_conditions, "id"), v)),
              result |-> <<>>]
        ELSE [data |-> d, result |-> <<>>]

parser_module_handle_delete_from(d, where) ==
    LET parsed_conditions == parser_module_parse_conditions(where)
    IN  IF parsed_conditions = <<>> THEN [data |-> d, result |-> <<>>]
        ELSE [data |-> SelectSeq(d, LAMBDA r :
                            ~check_row_conditions(r, parsed_conditions)),
              result |-> <<>>]

(* The statement patterns of the package.  The INSERT pattern ends with    *)
(* the closing parenthesis of VALUES (...), so an INSERT followed by USING *)
(* or IF does not match it; the UPDATE pattern wants SET right after the   *)
(* table name and a WHERE clause; the DELETE pattern wants the WHERE       *)
(* clause right after the table name.  An IF clause at the end of UPDATE   *)
(* or DELETE is taken into the WHERE text, whose comparison pattern reads  *)
(* the predicate before it and ignores it.                                 *)
MatchesInsert(query) ==
    query.op = "insert" /\ query.using = NoUsing /\ query.lwt = "none"

MatchesUpdate(query) ==
    query.op = "update" /\ query.using = NoUsing /\ query.where # <<>>

MatchesDelete(query) ==
    query.op = "delete" /\ query.using = NoUsing /\ query.where # <<>>

----------------------------------------------------------------------------
(* The dispatcher: a statement is matched against the recognized shapes    *)
(* one after the other and handed to the handler of the first that         *)
(* matches.  When none matches, handle_query of the parser package         *)
(* returns the text "Error: Unsupported query: ..." to the caller, and     *)
(* handle_query of the _parser module returns the empty list.  The UPDATE  *)
(* handler of the parser package, parser/update.py, is not among the       *)
(* sources; the UPDATE handler of the package's _parser module stands for  *)
(* it.                                                                     *)

Unsupported == Stmt("unsupported", None, None, <<>>, NoUsing, "none")

UnsupportedText == [message |-> "Error: Unsupported query"]

handle_query(d, query, parameters) ==
    CASE MatchesInsert(query) ->
            pyscylladb_mock_handle_insert_into(d, query.id, query.v, parameters)
      [] query.op = "select" -> pyscylladb_mock_handle_select_from(d, query.where)
      [] MatchesUpdate(query) -> parser_module_handle_update(d, query.v, query.where)
      [] MatchesDelete(query) ->
            pyscylladb_mock_handle_delete_from(d, query.where, parameters)
      [] OTHER -> [data |-> d, result |-> <<UnsupportedText>>]

parser_module_handle_query(d, query) ==
    CASE MatchesInsert(query) ->
            parser_module_handle_insert_into(d, query.id, query.v)
      [] query.op = "select" -> parser_module_handle_select_from(d, query.where)
      [] MatchesUpdate(query) -> parser_module_handle_update(d, query.v, query.where)
      [] MatchesDelete(query) -> parser_module_handle_delete_from(d, query.where)
      [] OTHER -> [data |-> d, result |-> <<>>]

Dispatchers == {"parser", "_parser"}

DispatchQueries ==
    {Stmt("insert", id, v, <<>>, NoUsing, "none") : id \in Keys, v \in Vals}
    \cup {Stmt("select", None, None, where, NoUsing, "none") :
            where \in KeyWhereClauses \cup {<<>>}}
    \cup {Stmt("update", None, v, <<c>>, NoUsing, "none") :
            v \in Vals, c \in IdEquals}
    \cup {Stmt("delete", None, None, <<c>>, NoUsing, "none") : c \in IdEquals}
    \cup {Unsupported}

StmtDispatch(dispatcher, query) ==
    [op |-> "dispatch", dispatcher |-> dispatcher, query |-> query]

(* session.execute(query) hands the statement to handle_query without      *)
(* parameters.                                                             *)
Dispatch ==
    \E dispatcher \in Dispatchers, query \in DispatchQueries :
        Execute(StmtDispatch(dispatcher, query),
                IF dispatcher = "parser"
                THEN handle_query(data, query, <<>>)
                ELSE parser_module_handle_query(data, query))

NextDispatch == Dispatch \/ Return \/ Tick

SpecDispatch == Init /\ [][NextDispatch]_vars

(* The filter specification: a table of the pyscylladb_mock package, whose *)
(* INSERT appends a row, read by SELECT * under every WHERE clause of      *)
(* WhereClauses and without one.                                           *)
InsertFilter ==
    \E id \in Keys, v \in Vals :
        Execute(Stmt("insert", id, v, <<>>, NoUsing, "none"),
                pyscylladb_mock_handle_insert_into(data, id, v, <<>>))

SelectFilter ==
    \E where \in WhereClauses \cup {<<>>} :
        Execute(Stmt("select", None, None, where, NoUsing, "none"),
                pyscylladb_mock_handle_select_from(data, where))

NextFilter == InsertFilter \/ SelectFilter \/ Return

SpecFilter == Init /\ [][NextFilter]_vars

----------------------------------------------------------------------------
(* BATCH.  handle_batch of the parser package takes the inner statements   *)
(* of BEGIN BATCH ... APPLY BATCH in the order written and hands each to   *)
(* its handler, with the parameters of the batch for INSERT and DELETE; a  *)
(* statement that matches none of the three patterns is passed over.  A    *)
(* batch statement object is executed by the session: each statement goes  *)
(* through the dispatcher at its own clock reading times[i].               *)

MaxBatch == 2     \* a batch holds at most this many inner statements
MaxBatchRows == 2 \* a batch is taken only if it leaves at most this many rows

handle_inner(d, query, parameters) ==
    CASE MatchesInsert(query) ->
            pyscylladb_mock_handle_insert_into(d, query.id, query.v, parameters)
      [] MatchesUpdate(query) -> parser_module_handle_update(d, query.v, query.where)
      [] MatchesDelete(query) ->
            pyscylladb_mock_handle_delete_from(d, query.where, parameters)
      [] OTHER -> [data |-> d, result |-> <<>>]

(* The handler of an inner statement raised: the exception leaves the     *)
(* loop, which catches nothing.                                            *)
inner_raised_never(out) == FALSE

inner_raised(out) == Len(out.result) = 1 /\ "error" \in DOMAIN out.result[1]

RECURSIVE batch_from(_, _, _, _)
batch_from(d, queries, parameters, i) ==
    IF i > Len(queries) THEN [data |-> d, result |-> <<>>]
    ELSE LET out == handle_inner(d, queries[i], parameters)
         IN  IF inner_raised(out)
             THEN out
             ELSE batch_from(out.data, queries, parameters, i + 1)

handle_batch(d, queries, parameters) == batch_from(d, queries, parameters, 1)

(* The dispatcher of the session that executes a batch statement object:   *)
(* each statement is handed to the handler of the write path or to SELECT; *)
(* a statement of no recognized shape is a syntax error.                   *)
run_query(d, t, query) ==
    CASE query.op = "insert" ->
            handle_insert_into(d, t, query.id, query.v, query.using, query.lwt)
      [] query.op = "select" -> handle_select_from(d, query.where, <<>>)
      [] query.op = "update" ->
            handle_update(d, t, query.v, query.where, query.using, query.lwt)
      [] query.op = "delete" -> handle_delete_from(d, t, query.where, query.lwt)
      [] OTHER -> Raised(d, "SyntaxException")

(* A batch statement object: the result of the last statement is returned. *)
RECURSIVE execute_batch_from(_, _, _, _, _)
execute_batch_from(d, times, batch, i, last_result) ==
    IF i > Len(batch) THEN [data |-> d, result |-> last_result]
    ELSE LET out == run_query(d, times[i], batch[i])
         IN  IF inner_raised(out)
             THEN out
             ELSE execute_batch_from(out.data, times, batch, i + 1, out.result)

execute_batch_statement(d, times, batch) ==
    execute_batch_from(d, times, batch, 1, <<>>)

BatchUsing == {NoUsing, UsingTimestamp(NoUsing, MaxTs)}

InnerStatements ==
    {Stmt("insert", id, v, <<>>, using, "none") :
        id \in Keys, v \in Vals, using \in BatchUsing}
    \cup {Stmt("update", None, v, <<c>>, NoUsing, "none") :
            v \in Vals, c \in IdEquals}
    \cup {Stmt("delete", None, None, <<c>>, NoUsing, "none") : c \in IdEquals}
    \cup {Stmt("select", None, None, <<>>, NoUsing, "none")}
    \cup {Unsupported}

Batches ==
    UNION {[1..n -> InnerStatements] : n \in 0..MaxBatch}

(* Clock readings of the inner statements: from the current reading on,    *)
(* never going back.                                                       *)
Readings(n) ==
    {times \in [1..n -> now..(Epoch + MaxTime)] :
        \A i \in 1..(n - 1) : times[i] <= times[i + 1]}

StmtBatch(kind, queries, times, parameters, blanks) ==
    [op |-> "batch", kind |-> kind, queries |-> queries, times |-> times,
     parameters |-> parameters, blanks |-> blanks]

(* The white space written between BEGIN BATCH and APPLY BATCH when no     *)
(* statement stands between them; a batch with statements has white space  *)
(* on both sides of them.                                                  *)
MaxBlanks == 2

Blanks(queries) == IF queries = <<>> THEN 1..MaxBlanks ELSE {1}

(* The pattern of handle_query, BEGIN\s+BATCH\s+(.*?)\s+APPLY\s+BATCH, asks *)
(* for white space after BEGIN BATCH and again before APPLY BATCH: a batch *)
(* of no statement matches it only with two blanks or more.  A text that   *)
(* does not match falls through every pattern to the last line of          *)
(* handle_query.                                                           *)
batch_match(queries, blanks) == queries # <<>> \/ blanks >= 2

handle_query_batch(d, queries, blanks, parameters) ==
    IF batch_match(queries, blanks) THEN handle_batch(d, queries, parameters)
    ELSE [data |-> d, result |-> <<UnsupportedText>>]

ExecuteBatch(stmt, out) ==
    /\ pc = "idle"
    /\ pc' = "done"
    /\ Len(out.data) <= MaxBatchRows
    /\ data' = out.data
    /\ result' = out.result
    /\ pre' = data
    /\ last' = stmt
    /\ now' = IF stmt.times = <<>> THEN now ELSE stmt.times[Len(stmt.times)]
    /\ UNCHANGED <<previous, keyspaces, pre_keyspaces, session>>

(* BEGIN BATCH ... APPLY BATCH executed without parameters; its handlers   *)
(* read no clock.                                                          *)
Batch ==
    \E queries \in Batches :
        \E blanks \in Blanks(queries) :
            ExecuteBatch(StmtBatch("text", queries,
                                   [i \in 1..Len(queries) |-> now], <<>>, blanks),
                         handle_query_batch(data, queries, blanks, <<>>))

(* session.execute(batch) with a batch statement object *)
BatchStatement ==
    \E queries \in Batches :
        \E times \in Readings(Len(queries)) :
            ExecuteBatch(StmtBatch("object", queries, times, <<>>, 0),
                         execute_batch_statement(data, times, queries))

NextBatch == Batch \/ BatchStatement \/ Return \/ Tick

SpecBatch == Init /\ [][NextBatch]_vars

(* Batches with an inner statement that raises.  In a textual batch        *)
(* executed with parameters every inner INSERT takes the parameters for    *)
(* its values and raises when their number is not the number of its        *)
(* columns, and every inner DELETE raises when their number is not the     *)
(* number of its placeholders; UPDATE is handed no parameters.  In a batch *)
(* statement object the raising statement is an INSERT whose USING TTL is  *)
(* negative.                                                               *)
MaxFailingBatch == 3     \* inner statements of such a batch

BatchParameters == {<<>>, <<1>>}

ParameterStatements ==
    {Stmt("insert", id, 1, <<>>, NoUsing, "none") : id \in Keys}
    \cup {Stmt("update", None, 1, <<c>>, NoUsing, "none") :
            c \in {k \in IdEquals : Operand(k) = 1}}
    \cup {Stmt("delete", None, None, <<c>>, NoUsing, "none") :
            c \in {k \in IdEquals : Operand(k) = 1}
                    \cup {k \in PlaceholderConds : k.col = "id" /\ k.op = "="}}

ParameterBatches ==
    UNION {[1..n -> ParameterStatements] : n \in 0..MaxFailingBatch}

RaisingStatements ==
    {Stmt("insert", 1, MaxVal, <<>>, UsingTtl(NegativeTtl), "none")}

PlainStatements ==
    {Stmt("insert", id, 1, <<>>, NoUsing, "none") : id \in Keys}
    \cup {Stmt("delete", None, None, <<c>>, NoUsing, "none") : c \in IdEquals}

FailingBatches ==
    UNION {[1..n -> PlainStatements \cup RaisingStatements] : n \in 0..MaxFailingBatch}

BatchRaising ==
    \E queries \in ParameterBatches, parameters \in BatchParameters :
        \E blanks \in Blanks(queries) :
            ExecuteBatch(StmtBatch("text", queries,
                                   [i \in 1..Len(queries) |-> now], parameters,
                                   blanks),
                         handle_query_batch(data, queries, blanks, parameters))

BatchStatementRaising ==
    \E queries \in FailingBatches :
        \E times \in Readings(Len(queries)) :
            ExecuteBatch(StmtBatch("object", queries, times, <<>>, 0),
                         execute_batch_statement(data, times, queries))

NextBatchError == BatchRaising \/ BatchStatementRaising \/ InsertTtl \/ Return \/ Tick

SpecBatchError == Init /\ [][NextBatchError]_vars

----------------------------------------------------------------------------
(* Typed values in the pyscylladb_mock package.  A text is a sequence of   *)
(* characters, each coded by a number in the order of the characters: a    *)
(* digit by its value, the quote mark below the digits.  A literal is the  *)
(* text written in the statement, bare or between quote marks; a stored    *)
(* value is a Python int or a Python str.                                  *)

Quote == -1

Literal(text, quoted) == [text |-> text, quoted |-> quoted]

(* The literal as it stands in the statement. *)
Written(val) ==
    IF val.quoted THEN <<Quote>> \o val.text \o <<Quote>> ELSE val.text

IntValue(n) == [type |-> "int", n |-> n, s |-> <<>>]

StrValue(text) == [type |-> "str", n |-> 0, s |-> text]

(* The conversion raised ValueError. *)
ValueError == [type |-> "ValueError", n |-> 0, s |-> <<>>]

IsDigits(text) == text # <<>> /\ \A i \in 1..Len(text) : text[i] \in 0..9

(* The number a text of digits reads as. *)
RECURSIVE DigitsValue(_)
DigitsValue(text) ==
    IF text = <<>> THEN 0
    ELSE DigitsValue(SubSeq(text, 1, Len(text) - 1)) * 10 + text[Len(text)]

(* int(value) of a str: the empty text and a text with a character that   *)
(* is no digit raise ValueError.                                           *)
python_int(text) ==
    IF IsDigits(text) THEN IntValue(DigitsValue(text)) ELSE ValueError

(* value.strip("'\""): the quote marks at both ends are taken off. *)
RECURSIVE strip_quotes(_)
strip_quotes(text) ==
    IF text = <<>> THEN text
    ELSE IF text[1] = Quote THEN strip_quotes(Tail(text))
    ELSE IF text[Len(text)] = Quote
    THEN strip_quotes(SubSeq(text, 1, Len(text) - 1))
    ELSE text

(* a < b for two Python strings. *)
RECURSIVE str_less(_, _)
str_less(a, b) ==
    IF b = <<>> THEN FALSE
    ELSE IF a = <<>> THEN TRUE
    ELSE IF a[1] # b[1] THEN a[1] < b[1]
    ELSE str_less(Tail(a), Tail(b))

(* cast_value of a str: int() for int and counter, the str itself for     *)
(* every other type.                                                       *)
cast_value(value, cql_type) ==
    CASE lower(cql_type) \in {"int", "counter"} -> python_int(value)
      [] lower(cql_type) \in {"text", "varchar"} -> StrValue(value)
      [] OTHER -> StrValue(value)

(* schema.get(col): the declared type, "" for a column not declared. *)
SchemaGet(schema, col) ==
    IF \E i \in 1..Len(schema) : schema[i].name = col
    THEN schema[CHOOSE i \in 1..Len(schema) : schema[i].name = col].type
    ELSE ""

(* The value stored for a literal, no user-defined type being declared: a  *)
(* literal of a declared column is cast without its quote marks, a literal *)
(* of a column the schema does not know is kept as it was written.         *)
assign_row_data_value(val, cql_type) ==
    IF cql_type # "" THEN cast_value(strip_quotes(val), cql_type)
    ELSE StrValue(val)

(* parser/create.py *)
pyscylladb_mock_handle_create_keyspace(ks, keyspace_name) ==
    IF keyspace_name \in DOMAIN ks
    THEN [keyspaces |-> ks, result |-> <<[error |-> "Exception"]>>]
    ELSE [keyspaces |-> Put(ks, keyspace_name, [tables |-> NoEntries]),
          result |-> <<>>]

(* A column definition is the sequence of its words: the name, the type    *)
(* and what follows them, which is not looked at; a definition of one word *)
(* raises ValueError when the dictionary is built.                         *)
pyscylladb_mock_handle_create_table(ks, keyspace_name, table_name, column_defs) ==
    IF keyspace_name \notin DOMAIN ks
    THEN [keyspaces |-> ks, result |-> <<[error |-> "Exception"]>>]
    ELSE IF table_name \in DOMAIN ks[keyspace_name].tables
    THEN [keyspaces |-> ks, result |-> <<[error |-> "Exception"]>>]
    ELSE IF \E i \in 1..Len(column_defs) : Len(column_defs[i]) < 2
    THEN [keyspaces |-> ks, result |-> <<[error |-> "ValueError"]>>]
    ELSE [keyspaces |->
            [ks EXCEPT ![keyspace_name].tables =
                Put(@, table_name,
                    [schema |-> [i \in 1..Len(column_defs) |->
                                    Column(column_defs[i][1], column_defs[i][2])],
                     data |-> <<>>])],
          result |-> <<>>]

(* parser/insert.py with the literals of the statement: the row is a       *)
(* dictionary over the columns the statement names, appended to the table  *)
(* unless a cast raised.                                                   *)
typed_insert_into(table, columns, values) ==
    LET row_data ==
            [c \in SeqRange(columns) |->
                assign_row_data_value(
                    Written(values[CHOOSE i \in 1..Len(columns) : columns[i] = c]),
                    SchemaGet(table.schema, c))]
    IN  IF Len(columns) # Len(values)
        THEN [data |-> table.data, result |-> <<[error |-> "Exception"]>>]
        ELSE IF \E c \in SeqRange(columns) : row_data[c] = ValueError
        THEN [data |-> table.data, result |-> <<[error |-> "ValueError"]>>]
        ELSE [data |-> Append(table.data, row_data), result |-> <<>>]

(* The operand of a comparison is read without its quote marks and cast    *)
(* when the schema declares the column.                                    *)
typed_parse_comparison_condition(schema, c) ==
    LET cql_type == SchemaGet(schema, c.col)
    IN  [col |-> c.col, op |-> c.op,
         val |-> IF cql_type # "" THEN cast_value(c.val.text, cql_type)
                 ELSE StrValue(c.val.text)]

OrderingOps == {">", "<", ">=", "<="}

(* Ordering an int against a str raises TypeError; == between them is      *)
(* False, and so is every operator __check_condition does not know.        *)
typed_condition_raises(row_val, op, val) ==
    op \in OrderingOps /\ row_val.type # val.type

typed_check_condition(row_val, op, val) ==
    IF row_val.type # val.type THEN FALSE
    ELSE IF row_val.type = "int"
    THEN CASE op = "=" -> row_val.n = val.n
           [] op = ">" -> row_val.n > val.n
           [] op = "<" -> row_val.n < val.n
           [] op = ">=" -> row_val.n >= val.n
           [] op = "<=" -> row_val.n <= val.n
           [] OTHER -> FALSE
    ELSE CASE op = "=" -> row_val.s = val.s
           [] op = ">" -> str_less(val.s, row_val.s)
           [] op = "<" -> str_less(row_val.s, val.s)
           [] op = ">=" -> ~str_less(row_val.s, val.s)
           [] op = "<=" -> ~str_less(val.s, row_val.s)
           [] OTHER -> FALSE

(* check_row_conditions from the i-th condition on: the conditions are     *)
(* tested in the order written and the first that fails ends the test, so  *)
(* a comparison raises only when every condition before it held.           *)
RECURSIVE typed_check_row_conditions(_, _, _)
typed_check_row_conditions(row, parsed, i) ==
    IF i > Len(parsed) THEN "true"
    ELSE IF parsed[i].col \notin DOMAIN row THEN "false"
    ELSE IF typed_condition_raises(row[parsed[i].col], parsed[i].op, parsed[i].val)
    THEN "TypeError"
    ELSE IF ~typed_check_condition(row[parsed[i].col], parsed[i].op, parsed[i].val)
    THEN "false"
    ELSE typed_check_row_conditions(row, parsed, i + 1)

(* parser/select.py, SELECT * FROM t [WHERE ...]: the clause is parsed     *)
(* before any row is looked at, then the rows are tested in table order.   *)
typed_select_from(table, where) ==
    LET parsed == [i \in 1..Len(where) |->
                        typed_parse_comparison_condition(table.schema, where[i])]
        outcome(r) == typed_check_row_conditions(r, parsed, 1)
    IN  IF where = <<>> THEN table.data
        ELSE IF \E i \in 1..Len(parsed) : parsed[i].val = ValueError
        THEN <<[error |-> "ValueError"]>>
        ELSE IF \E i \in 1..Len(table.data) : outcome(table.data[i]) = "TypeError"
        THEN <<[error |-> "TypeError"]>>
        ELSE SelectSeq(table.data, LAMBDA r : outcome(r) = "true")

MaxTypedRows == 2     \* rows stored in the table of the types specification

TypedKeyspace == "ks1"

TypedTable == "t1"

ColumnTypes == {"int", "INT", "text", "bigint"}

(* The literals 2, 5 and 10, and the literal of no character. *)
LiteralTexts == {<<2>>, <<5>>, <<1, 0>>}

Literals ==
    {Literal(text, quoted) : text \in LiteralTexts, quoted \in BOOLEAN}
        \cup {Literal(<<>>, TRUE)}

KeyLiterals == {Literal(<<k>>, FALSE) : k \in Keys}

(* The second column an INSERT names: the declared v, or w, which no       *)
(* schema declares.                                                        *)
TypedColumns == {"v", "w"}

TypedOps == {"=", ">", "<", ">=", "<="}

TypedConds ==
    {[col |-> col, op |-> op, val |-> val] :
        col \in TypedColumns, op \in TypedOps,
        val \in {v \in Literals : ~v.quoted \/ v.text \in {<<>>, <<5>>}}}

(* No WHERE clause, one comparison, or a comparison on the key and then    *)
(* one on the second column.                                               *)
TypedWhereClauses ==
    {<<>>} \cup {<<c>> : c \in TypedConds}
        \cup {<<[col |-> "id", op |-> "=", val |-> Literal(<<1>>, FALSE)], c>> :
                c \in {k \in TypedConds : k.op = ">" /\ ~k.val.quoted}}

(* ScyllaState.__init__ of pyscylladb_mock: the keyspace system alone. *)
pyscylladb_mock_ScyllaState ==
    [k \in {"system"} |->
        [tables |-> [t \in {"local"} |->
                        [schema |-> SystemTables["local"].schema,
                         data |-> SystemTables["local"].data]]]]

HasTypedTable ==
    /\ TypedKeyspace \in DOMAIN keyspaces
    /\ TypedTable \in DOMAIN keyspaces[TypedKeyspace].tables

CreateTypedKeyspace ==
    ExecuteDdl(Ddl("create_keyspace", TypedKeyspace, TypedKeyspace, FALSE, <<>>),
               pyscylladb_mock_handle_create_keyspace(keyspaces, TypedKeyspace))

(* CREATE TABLE ks1.t1 (id int PRIMARY KEY, v <type>) *)
CreateTypedTable ==
    \E type \in ColumnTypes :
        ExecuteDdl(Ddl("create_table", TypedKeyspace, TypedTable, FALSE, type),
                   pyscylladb_mock_handle_create_table(
                        keyspaces, TypedKeyspace, TypedTable,
                        <<<<"id", "int", "PRIMARY", "KEY">>, <<"v", type>>>>))

(* INSERT INTO ks1.t1 (id, <column>) VALUES (<id>, <literal>) *)
InsertLiteral ==
    \E id \in KeyLiterals, col \in TypedColumns, v \in Literals :
        /\ HasTypedTable
        /\ LET table == keyspaces[TypedKeyspace].tables[TypedTable]
               out == typed_insert_into(table, <<"id", col>>, <<id, v>>)
           IN  /\ Len(out.data) <= MaxTypedRows
               /\ ExecuteDdl(Ddl("insert_literal", TypedKeyspace, TypedTable, FALSE,
                                 [columns |-> <<"id", col>>, values |-> <<id, v>>]),
                             [keyspaces |->
                                [keyspaces EXCEPT
                                    ![TypedKeyspace].tables[TypedTable].data =
                                        out.data],
                              result |-> out.result])

SelectLiteral ==
    \E where \in TypedWhereClauses :
        /\ HasTypedTable
        /\ ExecuteDdl(Ddl("select_literal", TypedKeyspace, TypedTable, FALSE, where),
                      [keyspaces |-> keyspaces,
                       result |->
                            typed_select_from(
                                keyspaces[TypedKeyspace].tables[TypedTable], where)])

(* ScyllaState.reset() of pyscylladb_mock runs __init__ again: whatever   *)
(* the catalog held, it is the keyspace system alone afterwards.  A state *)
(* object of this class is known by its catalog, which never has a        *)
(* keyspace system_schema.                                                *)
IsPyscylladbMockState(ks) == "system_schema" \notin DOMAIN ks

pyscylladb_mock_reset(ks) == pyscylladb_mock_ScyllaState

pyscylladb_mock_Reset ==
    /\ IsPyscylladbMockState(keyspaces)
    /\ ExecuteDdl(Ddl("pyscylladb_mock_reset", "", "", FALSE, <<>>),
                  [keyspaces |-> pyscylladb_mock_reset(keyspaces),
                   result |-> <<>>])

(* MockScyllaDB.__enter__ of pyscylladb_mock: self.state.reset(); the     *)
(* patches it starts and the global state it sets hold no catalog.        *)
pyscylladb_mock_EnterContext ==
    /\ IsPyscylladbMockState(keyspaces)
    /\ ExecuteDdl(Ddl("pyscylladb_mock_enter", "", "", FALSE, <<>>),
                  [keyspaces |-> pyscylladb_mock_reset(keyspaces),
                   result |-> <<>>])

NextTypes ==
    \/ CreateTypedKeyspace \/ CreateTypedTable \/ InsertLiteral
    \/ SelectLiteral
    \/ pyscylladb_mock_Reset \/ pyscylladb_mock_EnterContext
    \/ Return

InitTypes ==
    /\ data = <<>>
    /\ now = Epoch
    /\ pc = "idle"
    /\ pre = <<>>
    /\ last = NoStmt
    /\ result = <<>>
    /\ previous = NoStmt
    /\ keyspaces = pyscylladb_mock_ScyllaState
    /\ pre_keyspaces = keyspaces
    /\ session = NewSession

SpecTypes == InitTypes /\ [][NextTypes]_vars

----------------------------------------------------------------------------
(* Statements that name a table of the system keyspaces.  The handlers     *)
(* look the table up in state.keyspaces as they do any other: system.local *)
(* has no "primary_key" entry, so an INSERT finds no existing row and      *)
(* appends; the tables of system_schema are keyed by their listed columns. *)

MaxSystemRows == 2    \* rows of system.local in the system specification

LocalKeys == {"local", "other"}

SchemaKeyspaceNames == {"system", "ks1", "zz"}

(* INSERT INTO system.local (key) VALUES (key) *)
insert_into_local(ks, key) ==
    LET table == ks["system"].tables["local"]
        primary_key_cols == table.primary_key.all
        found == IF primary_key_cols = <<>> THEN {}
                 ELSE {i \in 1..Len(table.data) : table.data[i].key = key}
    IN  IF found = {}
        THEN [ks EXCEPT !["system"].tables["local"].data = Append(@, [key |-> key])]
        ELSE ks

(* UPDATE system.local SET rack = ... WHERE key = key: the matching rows   *)
(* are rewritten, and a row is appended when none matches.                 *)
update_local(ks, key) ==
    LET table == ks["system"].tables["local"]
        matching_rows == {i \in 1..Len(table.data) : table.data[i].key = key}
    IN  IF matching_rows # {} THEN ks
        ELSE [ks EXCEPT !["system"].tables["local"].data = Append(@, [key |-> key])]

(* DELETE FROM system.local WHERE key = key *)
delete_from_local(ks, key) ==
    [ks EXCEPT !["system"].tables["local"].data =
        SelectSeq(@, LAMBDA r : r.key # key)]

(* INSERT INTO system_schema.keyspaces (keyspace_name) VALUES (name) *)
insert_into_schema_keyspaces(ks, name) ==
    [ks EXCEPT !["system_schema"].tables["keyspaces"].data =
        {r \in @ : r.keyspace_name # name} \cup {[keyspace_name |-> name]}]

(* UPDATE system_schema.keyspaces SET ... WHERE keyspace_name = name *)
update_schema_keyspaces(ks, name) ==
    insert_into_schema_keyspaces(ks, name)

(* DELETE FROM system_schema.keyspaces WHERE keyspace_name = name *)
delete_from_schema_keyspaces(ks, name) ==
    [ks EXCEPT !["system_schema"].tables["keyspaces"].data =
        {r \in @ : r.keyspace_name # name}]

SystemDml(op, keyspace_name, name, arg, out) ==
    ExecuteDdl(Ddl(op, keyspace_name, name, FALSE, arg),
               [keyspaces |-> out, result |-> <<>>])

InsertLocal ==
    \E key \in LocalKeys :
        /\ Len(keyspaces["system"].tables["local"].data) < MaxSystemRows
        /\ SystemDml("insert_system", "system", "local", key,
                     insert_into_local(keyspaces, key))

UpdateLocal ==
    \E key \in LocalKeys :
        /\ Len(keyspaces["system"].tables["local"].data) < MaxSystemRows
        /\ SystemDml("update_system", "system", "local", key,
                     update_local(keyspaces, key))

DeleteLocal ==
    \E key \in LocalKeys :
        SystemDml("delete_system", "system", "local", key,
                  delete_from_local(keyspaces, key))

InsertSchemaRow ==
    \E name \in SchemaKeyspaceNames :
        SystemDml("insert_system", "system_schema", "keyspaces", name,
                  insert_into_schema_keyspaces(keyspaces, name))

UpdateSchemaRow ==
    \E name \in SchemaKeyspaceNames :
        SystemDml("update_system", "system_schema", "keyspaces", name,
                  update_schema_keyspaces(keyspaces, name))

DeleteSchemaRow ==
    \E name \in SchemaKeyspaceNames :
        SystemDml("delete_system", "system_schema", "keyspaces", name,
                  delete_from_schema_keyspaces(keyspaces, name))

NextSystem ==
    \/ InsertLocal \/ UpdateLocal \/ DeleteLocal
    \/ InsertSchemaRow \/ UpdateSchemaRow \/ DeleteSchemaRow
    \/ CreateKeyspace \/ DropKeyspace \/ Return

SpecSystem == Init /\ [][NextSystem]_vars

----------------------------------------------------------------------------
(* UPDATE t SET col = col + n WHERE id = k on a table of counter columns.  *)
(* A row carries the counter columns that were assigned: row.counters is a *)
(* function whose domain is the set of columns present in the row.         *)

MaxDelta == 2            \* the literal n of an increment is 0..MaxDelta
MaxCounterUpdates == 3   \* counter statements executed in one behaviour

CounterColumns == {"c", "d"}

(* counter_operations of "col = col + n" and "col = col - n". *)
parse_set_clause(col, op, n) ==
    [col |-> col, val |-> IF op = "-" THEN 0 - n ELSE n]

(* row.get(col, 0) *)
CounterGet(row, col) ==
    IF col \in DOMAIN row.counters THEN row.counters[col] ELSE 0

CounterPut(f, col, val) ==
    [x \in DOMAIN f \cup {col} |-> IF x = col THEN val ELSE f[x]]

update_counter_rows_assigning(d, id, counter_operation, write_timestamp, t) ==
    [i \in 1..Len(d) |->
        IF d[i].id = id /\ ~(write_timestamp < row_write_timestamp(d[i]))
        THEN apply_write_metadata(
                [d[i] EXCEPT !.counters =
                    CounterPut(@, counter_operation.col, counter_operation.val)],
                write_timestamp, None, FALSE, t)
        ELSE d[i]]

update_counter_rows(d, id, counter_operation, write_timestamp, t) ==
    [i \in 1..Len(d) |->
        IF d[i].id = id /\ ~(write_timestamp < row_write_timestamp(d[i]))
        THEN apply_write_metadata(
                [d[i] EXCEPT !.counters =
                    CounterPut(@, counter_operation.col,
                               CounterGet(d[i], counter_operation.col)
                                    + counter_operation.val)],
                write_timestamp, None, FALSE, t)
        ELSE d[i]]

upsert_counter_row(d, id, counter_operation, write_timestamp, t) ==
    Append(d, apply_write_metadata(
                [id |-> id,
                 counters |-> CounterPut(<<>>, counter_operation.col,
                                         counter_operation.val),
                 ts |-> 0, exp |-> None],
                write_timestamp, None, FALSE, t))

handle_update_counter(d, t, id, col, op, n) ==
    LET purged == purge_expired_rows(d, t)
        counter_operation == parse_set_clause(col, op, n)
        matching_rows == SelectSeq(purged, LAMBDA r : r.id = id)
        write_timestamp == current_timestamp_microseconds(t)
        rows_updated ==
            Cardinality({i \in 1..Len(purged) :
                            /\ purged[i].id = id
                            /\ ~(write_timestamp < row_write_timestamp(purged[i]))})
    IN  IF rows_updated > 0
        THEN update_counter_rows(purged, id, counter_operation, write_timestamp, t)
        ELSE IF matching_rows = <<>>
        THEN upsert_counter_row(purged, id, counter_operation, write_timestamp, t)
        ELSE purged

(* The counter statements executed so far, oldest first. *)
CounterHistory == IF previous.op = "counters" THEN previous.queries ELSE <<>>

StmtCounter(id, col, op, n) ==
    [op |-> "update_counter", id |-> id, col |-> col, sign |-> op, n |-> n]

UpdateCounter ==
    \E id \in Keys, col \in CounterColumns, op \in {"+", "-"}, n \in 0..MaxDelta :
        /\ pc = "idle"
        /\ Len(CounterHistory) < MaxCounterUpdates
        /\ pc' = "done"
        /\ data' = handle_update_counter(data, now, id, col, op, n)
        /\ result' = <<>>
        /\ pre' = data
        /\ last' = StmtCounter(id, col, op, n)
        /\ previous' = [op |-> "counters",
                        queries |-> Append(CounterHistory, StmtCounter(id, col, op, n))]
        /\ UNCHANGED <<now, keyspaces, pre_keyspaces, session>>

ReturnCounter ==
    /\ pc = "done"
    /\ pc' = "idle"
    /\ pre' = <<>>
    /\ last' = NoStmt
    /\ result' = <<>>
    /\ UNCHANGED <<data, now, previous, keyspaces, pre_keyspaces, session>>

(* Time passes between two counter statements. *)
TickCounter ==
    /\ pc = "idle"
    /\ now < Epoch + MaxTime
    /\ now' = now + 1
    /\ UNCHANGED <<data, pc, pre, last, result, previous, keyspaces, pre_keyspaces,
                   session>>

NextCounter == UpdateCounter \/ ReturnCounter \/ TickCounter

SpecCounter == Init /\ [][NextCounter]_vars

----------------------------------------------------------------------------
(* ScyllaState.reset() runs __init__ again: state.keyspaces is built anew  *)
(* from the system keyspace, whatever it held.  The package mockylla has   *)
(* two ScyllaState classes: the one of classes/state.py, and the one of    *)
(* mockylla/__init__.py that a MockScyllaDB holds and resets on entering   *)
(* its context.  The class of the state object shows in its catalog: only  *)
(* the first has the table system_schema.views.                            *)

IsClassesState(ks) ==
    /\ "system_schema" \in DOMAIN ks
    /\ "views" \in DOMAIN ks["system_schema"].tables

IsMockyllaState(ks) ==
    /\ "system_schema" \in DOMAIN ks
    /\ "views" \notin DOMAIN ks["system_schema"].tables

reset_kept(ks) == ks

(* ScyllaState.reset of classes/state.py *)
reset(ks) == InitialKeyspaces

(* ScyllaState.reset of mockylla/__init__.py *)
ScyllaState_reset(ks) == ScyllaState_init

Reset ==
    /\ IsClassesState(keyspaces)
    /\ ExecuteDdl(Ddl("reset", "", "", FALSE, <<>>),
                  [keyspaces |-> reset(keyspaces), result |-> <<>>])

(* MockScyllaDB.__enter__: self.state.reset() *)
EnterContext ==
    /\ IsMockyllaState(keyspaces)
    /\ ExecuteDdl(Ddl("enter", "", "", FALSE, <<>>),
                  [keyspaces |-> ScyllaState_reset(keyspaces), result |-> <<>>])

NextReset ==
    \/ CreateKeyspace \/ CreateTable \/ InsertRow
    \/ InsertLocal \/ DeleteLocal \/ InsertSchemaRow
    \/ Reset \/ EnterContext \/ Return

(* A state object of either class, as constructed. *)
InitReset ==
    /\ data = <<>>
    /\ now = Epoch
    /\ pc = "idle"
    /\ pre = <<>>
    /\ last = NoStmt
    /\ result = <<>>
    /\ previous = NoStmt
    /\ keyspaces \in {InitialKeyspaces, ScyllaState_init}
    /\ pre_keyspaces = keyspaces
    /\ session = NewSession

SpecReset == InitReset /\ [][NextReset]_vars

----------------------------------------------------------------------------
(* MockSession: set_keyspace, execute, execute_async and prepare call      *)
(* _ensure_open first, which raises RuntimeError once the session was shut *)
(* down; shutdown (close is the same function) sets the flag once.         *)

MaxPrepared == 2     \* statements prepared on the session

ensure_open_raises_never(s) == FALSE

ensure_open_raises(s) == s.is_shutdown

SessionOut(ks, d, s, outcome) ==
    [keyspaces |-> ks, data |-> d, session |-> s, result |-> outcome]

SessionShutDown(ks, d, s) == SessionOut(ks, d, s, <<[error |-> "RuntimeError"]>>)

set_keyspace(ks, d, s, keyspace) ==
    IF ensure_open_raises(s) THEN SessionShutDown(ks, d, s)
    ELSE IF keyspace \notin DOMAIN ks
    THEN SessionOut(ks, d, s, <<[error |-> "InvalidRequest"]>>)
    ELSE SessionOut(ks, d, [s EXCEPT !.keyspace = keyspace], <<>>)

(* _run_query hands the statement to the dispatcher. *)
execute(ks, d, s, t, query) ==
    IF ensure_open_raises(s) THEN SessionShutDown(ks, d, s)
    ELSE IF query.op = "create_keyspace"
    THEN LET out == handle_create_keyspace(ks, query.id)
         IN  SessionOut(out.keyspaces, d, s, out.result)
    ELSE LET out == handle_insert_into(d, t, query.id, query.v, NoUsing, "none")
         IN  SessionOut(ks, out.data, s, out.result)

(* MockResponseFuture(self.execute(...)) *)
execute_async(ks, d, s, t, query) == execute(ks, d, s, t, query)

prepare(ks, d, s) ==
    IF ensure_open_raises(s) THEN SessionShutDown(ks, d, s)
    ELSE SessionOut(ks, d, [s EXCEPT !.prepared_statements = @ + 1], <<>>)

shutdown(ks, d, s) ==
    IF s.is_shutdown THEN SessionOut(ks, d, s, <<>>)
    ELSE SessionOut(ks, d, [s EXCEPT !.is_shutdown = TRUE], <<>>)

SessionQueries ==
    {[op |-> "create_keyspace", id |-> k, v |-> None] : k \in KeyspaceNames}
        \cup {[op |-> "insert", id |-> id, v |-> v] : id \in Keys, v \in Vals}

StmtSession(op, query) == [op |-> op, query |-> query, session |-> session]

SessionCall(stmt, out) ==
    /\ pc = "idle"
    /\ pc' = "done"
    /\ Len(out.data) <= MaxRows
    /\ out.session.prepared_statements <= MaxPrepared
    /\ data' = out.data
    /\ keyspaces' = out.keyspaces
    /\ session' = out.session
    /\ result' = out.result
    /\ pre' = data
    /\ pre_keyspaces' = keyspaces
    /\ last' = stmt
    /\ UNCHANGED <<now, previous>>

SetKeyspace ==
    \E k \in KeyspaceNames \cup {"system"} :
        SessionCall(StmtSession("set_keyspace", k),
                    set_keyspace(keyspaces, data, session, k))

SessionExecute ==
    \E query \in SessionQueries :
        SessionCall(StmtSession("execute", query),
                    execute(keyspaces, data, session, now, query))

SessionExecuteAsync ==
    \E query \in SessionQueries :
        SessionCall(StmtSession("execute_async", query),
                    execute_async(keyspaces, data, session, now, query))

SessionPrepare ==
    SessionCall(StmtSession("prepare", <<>>), prepare(keyspaces, data, session))

SessionShutdown ==
    \E name \in {"shutdown", "close"} :
        SessionCall(StmtSession(name, <<>>), shutdown(keyspaces, data, session))

NextSession ==
    \/ SetKeyspace \/ SessionExecute \/ SessionExecuteAsync \/ SessionPrepare
    \/ SessionShutdown \/ Return

SpecSession == Init /\ [][NextSession]_vars

----------------------------------------------------------------------------
(* Vocabulary of the properties. *)

(* The statement raised. *)
IsError == Len(result) = 1 /\ "error" \in DOMAIN result[1]

(* The table as the last statement found it once expired rows are set aside. *)
Purged == purge_expired_rows(pre, now)

IsMutation == last.op \in {"insert", "update", "delete"}

EffectiveTimestamp == WriteTimestamp(last.using, now)

(* What a predicate means: a comparison of the row's value with the operand, *)
(* membership for IN; a predicate on an absent value is not satisfied.       *)
Holds(row, c) ==
    LET x == RowGet(row, c.col)
    IN  /\ x # None
        /\ CASE c.op = "="  -> x = Operand(c)
             [] c.op = "!=" -> x # Operand(c)
             [] c.op = "<"  -> x < Operand(c)
             [] c.op = "<=" -> x <= Operand(c)
             [] c.op = ">"  -> x > Operand(c)
             [] c.op = ">=" -> x >= Operand(c)
             [] c.op = "IN" -> x \in c.vals

Satisfies(row, where) == \A i \in 1..Len(where) : Holds(row, where[i])

PureEquality(where) == \A i \in 1..Len(where) : where[i].op = "="

----------------------------------------------------------------------------
(* C1: after any INSERT, UPDATE or DELETE no two stored rows carry the same *)
(* primary-key value.                                                      *)
C1_PrimaryKeyUnique ==
    \A i, j \in 1..Len(data) : i # j => data[i].id # data[j].id

(* C2: an unconditional INSERT whose effective timestamp is lower than or  *)
(* equal to the write timestamp of the existing row with its key changes   *)
(* nothing: the table is as the statement found it.                        *)
C2_InsertNotNewerIsNoOp ==
    LET idx == FindExisting(Purged, last.id)
    IN  (/\ last.op = "insert" /\ last.lwt = "none"
         /\ idx # 0
         /\ row_write_timestamp(Purged[idx]) >= EffectiveTimestamp)
            => data = Purged

(* C3: INSERT and UPDATE never lower a stored row's write timestamp, and   *)
(* an unconditional INSERT or UPDATE whose effective timestamp is lower    *)
(* than the timestamp of every row it matches leaves the table unchanged.  *)
MatchedRows ==
    IF last.op = "insert"
    THEN {i \in 1..Len(Purged) : i = FindExisting(Purged, last.id)}
    ELSE {i \in 1..Len(Purged) : Satisfies(Purged[i], last.where)}

C3_LastWriteWins ==
    /\ (last.op \in {"insert", "update"}) =>
            /\ Len(data) >= Len(Purged)
            /\ \A i \in 1..Len(Purged) :
                  row_write_timestamp(data[i]) >= row_write_timestamp(Purged[i])
    /\ (/\ last.op \in {"insert", "update"} /\ last.lwt = "none"
        /\ MatchedRows # {}
        /\ \A i \in MatchedRows :
              EffectiveTimestamp < row_write_timestamp(Purged[i]))
            => data = Purged

(* C4: an INSERT ... IF NOT EXISTS that is applied stores its row; the     *)
(* INSERT ... IF NOT EXISTS on the same key executed right after it        *)
(* returns [applied]=false with the first row's values and leaves the      *)
(* table, whose row for the key is still the first row, unchanged.         *)
IsIfNotExistsInsert == last.op = "insert" /\ last.lwt = "if_not_exists"

RowOfKey(d, k) == d[FindExisting(d, k)]

C4_IfNotExistsTwice ==
    /\ (IsIfNotExistsInsert /\ result = <<[applied |-> TRUE]>>) =>
            /\ Len(data) = Len(Purged) + 1
            /\ RowValues(data[Len(data)]) = [id |-> last.id, v |-> last.v]
    /\ (IsIfNotExistsInsert /\ previous.op = "insert" /\ previous.id = last.id) =>
            /\ result = <<[applied |-> FALSE, id |-> previous.id, v |-> previous.v]>>
            /\ data = pre
            /\ Cardinality({i \in 1..Len(data) : data[i].id = last.id}) = 1
            /\ RowValues(RowOfKey(data, last.id)) =
                    [id |-> previous.id, v |-> previous.v]
            /\ row_write_timestamp(RowOfKey(data, last.id)) =
                    WriteTimestamp(previous.using, now)

(* A second IF NOT EXISTS insert, carrying another value and a newer       *)
(* timestamp than the first, has returned.                                 *)
C4_Witness ==
    /\ IsIfNotExistsInsert
    /\ previous.op = "insert" /\ previous.id = last.id
    /\ previous.v # last.v
    /\ WriteTimestamp(previous.using, now) < EffectiveTimestamp
    /\ Len(result) = 1

(* C5: a SELECT never returns a row that is past its expiry instant, and   *)
(* a SELECT without WHERE returns every row that is not past it.           *)
C5_SelectHidesExpired ==
    (pc = "done" /\ last.op = "select" /\ ~IsError) =>
        /\ \A k \in 1..Len(result) :
                \E i \in 1..Len(pre) :
                    ~IsExpired(pre[i], now) /\ RowValues(pre[i]) = result[k]
        /\ last.where = <<>> =>
                \A i \in 1..Len(pre) :
                    ~IsExpired(pre[i], now) =>
                        \E k \in 1..Len(result) : result[k] = RowValues(pre[i])

(* C6: every INSERT, UPDATE and DELETE purges the expired rows before it   *)
(* looks for rows: none survives the statement; with only expired rows on  *)
(* its key, INSERT ... IF NOT EXISTS is applied, UPDATE and DELETE ... IF  *)
(* EXISTS are not, and an unconditional INSERT stores its row whatever the *)
(* expired row's write timestamp was.                                      *)
OnlyExpiredOn(k) ==
    /\ \E i \in 1..Len(pre) : pre[i].id = k
    /\ \A i \in 1..Len(pre) : pre[i].id = k => IsExpired(pre[i], now)

KeyEquality(where) ==
    Len(where) = 1 /\ where[1].col = "id" /\ where[1].op = "="

StoredAsNew ==
    /\ Len(data) = Len(Purged) + 1
    /\ RowValues(data[Len(data)]) = [id |-> last.id, v |-> last.v]
    /\ row_write_timestamp(data[Len(data)]) = EffectiveTimestamp

C6_PurgeBeforeMatch ==
    /\ IsMutation => \A i \in 1..Len(data) : ~IsExpired(data[i], now)
    /\ (last.op = "insert" /\ OnlyExpiredOn(last.id)) =>
            CASE last.lwt = "if_not_exists" ->
                    result = <<[applied |-> TRUE]>> /\ StoredAsNew
              [] last.lwt = "if_exists" ->
                    result = <<[applied |-> FALSE]>> /\ data = Purged
              [] OTHER -> StoredAsNew
    /\ (/\ last.op \in {"update", "delete"} /\ last.lwt = "if_exists"
        /\ KeyEquality(last.where)
        /\ OnlyExpiredOn(Operand(last.where[1]))) =>
            result = <<[applied |-> FALSE]>> /\ data = Purged

(* An unconditional INSERT, older than the expired row on its key, stored. *)
C6_Witness ==
    /\ last.op = "insert" /\ last.lwt = "none"
    /\ OnlyExpiredOn(last.id)
    /\ \E i \in 1..Len(pre) :
          pre[i].id = last.id /\ row_write_timestamp(pre[i]) > EffectiveTimestamp
    /\ StoredAsNew

(* C7: SELECT * FROM t WHERE P returns exactly the live rows that satisfy  *)
(* every predicate of P, each once, in insertion order.                    *)
C7_SelectReturnsSatisfying ==
    (last.op = "select") =>
        result = select_columns(
                    SelectSeq(Purged, LAMBDA r : Satisfies(r, last.where)))

(* C8: an unconditional UPDATE that no row matches appends a row, made of  *)
(* the equality values and the SET assignment, exactly when every          *)
(* predicate of its WHERE clause is an equality; otherwise it leaves the   *)
(* table unchanged.                                                        *)
C8_UpsertOnlyOnPureEquality ==
    (/\ last.op = "update" /\ last.lwt = "none"
     /\ \A i \in 1..Len(Purged) : ~Satisfies(Purged[i], last.where)) =>
        IF PureEquality(last.where)
        THEN /\ Len(data) = Len(Purged) + 1
             /\ SubSeq(data, 1, Len(Purged)) = Purged
             /\ RowValues(data[Len(data)]) =
                    [id |-> EqualityValue(last.where, "id"), v |-> last.v]
        ELSE data = Purged

(* C9: an UPDATE changes only rows that satisfy every predicate of its     *)
(* WHERE clause, and adds no row when at least one row satisfies it.       *)
C9_UpdateTouchesOnlyMatching ==
    (last.op = "update") =>
        /\ Len(data) >= Len(Purged)
        /\ \A i \in 1..Len(Purged) :
              ~Satisfies(Purged[i], last.where) => data[i] = Purged[i]
        /\ (\E i \in 1..Len(Purged) : Satisfies(Purged[i], last.where)) =>
              Len(data) = Len(Purged)

(* C10: DELETE ... WHERE P without IF removes exactly the rows that        *)
(* satisfy every predicate of P; the others stay, unchanged and in order.  *)
C10_DeleteRemovesSatisfying ==
    (last.op = "delete" /\ last.lwt = "none" /\ last.where # <<>>) =>
        data = SelectSeq(Purged, LAMBDA r : ~Satisfies(r, last.where))

----------------------------------------------------------------------------
(* Vocabulary of the conditional-write properties. *)

(* The WHERE clause of the last statement with its parameters written in. *)
BoundWhere ==
    [i \in 1..Len(last.where) |->
        IF IsPlaceholder(last.where[i]) /\ last.parameters # <<>>
        THEN [last.where[i] EXCEPT
                !.vals = {last.parameters[PlaceholderCount(last.where, i)]}]
        ELSE last.where[i]]

ParametersFit ==
    last.parameters = <<>>
        \/ PlaceholderCount(last.where, Len(last.where)) = Len(last.parameters)

(* Every placeholder of the statement has its parameter, and no more. *)
AllBound ==
    PlaceholderCount(last.where, Len(last.where)) = Len(last.parameters)

(* A DELETE whose WHERE clause is absent, or holds no predicate that can   *)
(* be read: an operator outside the comparison set or an operand left as   *)
(* an unbound placeholder.                                                 *)
NoParsablePredicate ==
    \A i \in 1..Len(last.where) :
        \/ last.where[i].op = "!="
        \/ (IsPlaceholder(last.where[i]) /\ last.parameters = <<>>)

(* C11 as stated: a DELETE whose WHERE clause is absent or yields no       *)
(* parsable predicate removes no live row and returns normally, with an    *)
(* empty result, under any table content and any parameters.               *)
C11_DeleteWithoutWhereIsNoOp ==
    (last.op = "delete" /\ last.lwt = "none" /\ NoParsablePredicate) =>
        data = Purged /\ result = <<>>

(* C11 amended: such a DELETE removes no live row under any parameters; it *)
(* returns normally, with an empty result, when the number of parameters   *)
(* is the number of placeholders of the statement, and fails with an      *)
(* error otherwise.                                                        *)
C11_DeleteWithoutWhereKeepsRows ==
    (last.op = "delete" /\ last.lwt = "none" /\ NoParsablePredicate) =>
        /\ data = Purged
        /\ IF ParametersFit THEN result = <<>> ELSE IsError

(* A DELETE without WHERE clause returned on a table holding a live row. *)
C11_Witness ==
    /\ last.op = "delete" /\ last.lwt = "none"
    /\ last.where = <<>> /\ last.parameters = <<>>
    /\ Purged # <<>>
    /\ result = <<>>

(* The live rows the WHERE clause of the last statement selects. *)
Matching == SelectSeq(Purged, LAMBDA r : Satisfies(r, BoundWhere))

NotMatching == SelectSeq(Purged, LAMBDA r : ~Satisfies(r, BoundWhere))

Applied(flag) == Len(result) = 1 /\ result[1].applied = flag

(* C12: DELETE ... IF EXISTS returns [applied]=false and leaves the table  *)
(* unchanged when no row matches the WHERE clause, and returns             *)
(* [applied]=true after removing the matching rows when one matches;       *)
(* DELETE ... IF <conditions> removes the matching rows, with              *)
(* [applied]=true, only when every matching row passes the conditions, and *)
(* else removes nothing and returns [applied]=false.                       *)
C12_ConditionalDelete ==
    (/\ last.op = "delete" /\ last.where # <<>> /\ AllBound
     /\ last.lwt \in {"if_exists", "conditions"}) =>
        IF /\ Matching # <<>>
           /\ (last.lwt = "conditions" =>
                    \A i \in 1..Len(Matching) :
                        Satisfies(Matching[i], last.lwt_conditions))
        THEN data = NotMatching /\ Applied(TRUE)
        ELSE data = Purged /\ Applied(FALSE)

(* C13: every INSERT, UPDATE and DELETE carrying an IF clause returns      *)
(* exactly one row, with an [applied] boolean column; when [applied] is    *)
(* false the table holds the live rows it held before the statement.       *)
C13_AppliedRow ==
    (/\ IsMutation /\ last.lwt # "none"
     /\ (last.op = "delete" => last.where # <<>>)
     /\ AllBound) =>
        /\ Len(result) = 1
        /\ "applied" \in DOMAIN result[1]
        /\ result[1].applied \in BOOLEAN
        /\ (result[1].applied = FALSE) => data = Purged

----------------------------------------------------------------------------
(* Vocabulary of the catalog properties. *)

Failed(kind) == result = <<[error |-> kind]>>

TableExists(ks, k, n) == k \in DOMAIN ks /\ n \in DOMAIN ks[k].tables

(* C14: CREATE KEYSPACE with a name already in the catalog, and CREATE     *)
(* TABLE naming an unknown keyspace or an existing table, fail with        *)
(* Invalid Request and leave the catalog as it was: keyspaces, tables,     *)
(* schemas and stored rows.                                                *)
C14_CreateExistingFails ==
    /\ (last.op = "create_keyspace" /\ last.name \in DOMAIN pre_keyspaces) =>
            Failed("InvalidRequest") /\ keyspaces = pre_keyspaces
    /\ (/\ last.op = "create_table"
        /\ \/ last.keyspace_name \notin DOMAIN pre_keyspaces
           \/ TableExists(pre_keyspaces, last.keyspace_name, last.name)) =>
            Failed("InvalidRequest") /\ keyspaces = pre_keyspaces

(* CREATE TABLE, with another primary key, on a table that holds a row. *)
C14_Witness ==
    /\ last.op = "create_table"
    /\ TableExists(pre_keyspaces, last.keyspace_name, last.name)
    /\ pre_keyspaces[last.keyspace_name].tables[last.name].data # <<>>
    /\ last.arg.pk # <<>>
    /\ Failed("InvalidRequest")

DefinitionOps ==
    {"create_keyspace", "create_table", "drop_table", "drop_keyspace",
     "create_index", "drop_index", "alter_table", "create_view", "drop_view"}

IsDefinition == pc = "done" /\ last.op \in DefinitionOps

(* The rows stored in the tables of system_schema. *)
StoredSchemaRows(ks) ==
    [t \in DOMAIN ks["system_schema"].tables |->
        ks["system_schema"].tables[t].data]

(* C15: after every successful definition statement the rows of           *)
(* system_schema.keyspaces, tables, columns, indexes and views are exactly *)
(* the projection of the live catalog.                                     *)
C15_SchemaIsProjection ==
    (IsDefinition /\ ~IsError) =>
        StoredSchemaRows(keyspaces) = SchemaRows(keyspaces)

(* The key a CREATE TABLE statement declares: the first component of the   *)
(* PRIMARY KEY clause (a column or a parenthesized list), or the column    *)
(* marked PRIMARY KEY inline, is the partition key; the other components   *)
(* are clustering columns.                                                 *)
DeclaredPartition(clause) ==
    IF clause.pk = <<>> THEN clause.inline ELSE clause.pk[1].cols

RECURSIVE DeclaredColumns(_)
DeclaredColumns(components) ==
    IF components = <<>> THEN <<>>
    ELSE components[1].cols \o DeclaredColumns(Tail(components))

DeclaredClustering(clause) ==
    IF clause.pk = <<>> THEN <<>> ELSE DeclaredColumns(Tail(clause.pk))

DeclaredKind(clause, column_name) ==
    IF column_name \in SeqRange(DeclaredPartition(clause)) THEN "partition_key"
    ELSE IF column_name \in SeqRange(DeclaredClustering(clause)) THEN "clustering"
    ELSE "regular"

IsCreatedTable ==
    /\ pc = "done"
    /\ last.op = "create_table"
    /\ last.keyspace_name \in DOMAIN pre_keyspaces
    /\ ~TableExists(pre_keyspaces, last.keyspace_name, last.name)

(* C16: in system_schema.columns and in the table metadata of a created    *)
(* table, every column of the partition key (every column of a             *)
(* parenthesized sub-list included) has kind partition_key, every other    *)
(* primary-key column has kind clustering, the remaining columns regular.  *)
C16_ColumnKinds ==
    IsCreatedTable =>
        /\ \A i \in 1..Len(UserColumns) :
                [keyspace_name |-> last.keyspace_name, table_name |-> last.name,
                 column_name |-> UserColumns[i].name,
                 kind |-> DeclaredKind(last.arg, UserColumns[i].name),
                 type |-> UserColumns[i].type]
                    \in StoredSchemaRows(keyspaces)["columns"]
        /\ "keyspaces" \in DOMAIN MockMetadata(keyspaces)
        /\ LET table == MockMetadata(keyspaces).keyspaces[last.keyspace_name][last.name]
           IN  /\ table.partition_key = DeclaredPartition(last.arg)
               /\ table.clustering_key = DeclaredClustering(last.arg)

(* Whether the object a DROP statement names is in the catalog ks. *)
DropTarget(ks) ==
    CASE last.op = "drop_table" ->
            TableExists(ks, last.keyspace_name, last.name)
      [] last.op = "drop_keyspace" -> last.keyspace_name \in DOMAIN ks
      [] OTHER -> IndexHolders(ks, last.name) # {}

(* Whether the metadata view can be read and lists the object. *)
MetadataAvailable(ks) == "keyspaces" \in DOMAIN MockMetadata(ks)

MetadataLists(ks) ==
    LET view == MockMetadata(ks).keyspaces
    IN  CASE last.op = "drop_table" ->
                /\ last.keyspace_name \in DOMAIN view
                /\ last.name \in DOMAIN view[last.keyspace_name]
          [] last.op = "drop_keyspace" -> last.keyspace_name \in DOMAIN view
          [] OTHER ->
                \E k \in DOMAIN view : \E n \in DOMAIN view[k] :
                    \E i \in 1..Len(view[k][n].indexes) :
                        view[k][n].indexes[i].name = last.name

IsDrop ==
    /\ pc = "done"
    /\ last.op \in {"drop_table", "drop_keyspace", "drop_index"}
    /\ last.keyspace_name # "system"

(* C17: DROP TABLE, DROP KEYSPACE and DROP INDEX of an absent object fail  *)
(* without IF EXISTS and are a successful no-op with it; dropping an       *)
(* existing object removes it from the catalog and from the metadata view. *)
C17_DropRemoves ==
    IsDrop =>
        IF DropTarget(pre_keyspaces)
        THEN /\ ~DropTarget(keyspaces)
             /\ MetadataAvailable(keyspaces)
             /\ ~MetadataLists(keyspaces)
        ELSE /\ keyspaces = pre_keyspaces
             /\ IsError <=> ~last.if_exists

IsDropSystem ==
    pc = "done" /\ last.op = "drop_keyspace" /\ last.keyspace_name = "system"

(* C18: DROP KEYSPACE system is rejected with Invalid Request with and     *)
(* without IF EXISTS, and the catalog, the system keyspace and             *)
(* system.local included, is the one before the statement.                 *)
C18_DropSystemRejected ==
    IsDropSystem =>
        /\ Failed("InvalidRequest")
        /\ keyspaces = pre_keyspaces
        /\ TableExists(keyspaces, "system", "local")
        /\ keyspaces["system"].tables["local"].data = <<[key |-> "local"]>>

(* DROP KEYSPACE IF EXISTS system while a user table is in the catalog. *)
C18_Witness ==
    /\ IsDropSystem
    /\ last.if_exists
    /\ \E k \in KeyspaceNames : TableExists(keyspaces, k, "t1")
    /\ Failed("InvalidRequest")

IsAlter == pc = "done" /\ last.op = "alter_table"

(* The table the last statement names, in the catalog ks. *)
NamedTable(ks) == ks[last.keyspace_name].tables[last.name]

(* The schema has the added column with its type and every column it had. *)
ColumnAdded ==
    /\ \E i \in 1..Len(NamedTable(keyspaces).schema) :
            NamedTable(keyspaces).schema[i] = last.arg
    /\ \A i \in 1..Len(NamedTable(pre_keyspaces).schema) :
            \/ NamedTable(pre_keyspaces).schema[i].name = last.arg.name
            \/ \E j \in 1..Len(NamedTable(keyspaces).schema) :
                    NamedTable(keyspaces).schema[j] =
                        NamedTable(pre_keyspaces).schema[i]
    /\ NamedTable(keyspaces).primary_key = NamedTable(pre_keyspaces).primary_key
    /\ NamedTable(keyspaces).data = NamedTable(pre_keyspaces).data

(* C19: ALTER TABLE ... ADD on an existing table adds the column with its  *)
(* declared type and keeps the other columns, the primary key and the      *)
(* stored rows; on a table that does not exist it fails with an error and  *)
(* leaves the catalog unchanged.                                           *)
C19_AlterAddsColumn ==
    IsAlter =>
        IF TableExists(pre_keyspaces, last.keyspace_name, last.name)
        THEN ~IsError /\ ColumnAdded
        ELSE IsError /\ keyspaces = pre_keyspaces

IsAggregate == pc = "done" /\ last.op = "select_aggregate"

(* The positions of the rows the WHERE clause of the statement selects,    *)
(* and those among them whose regular column holds a value.                *)
FilteredPositions == {i \in 1..Len(pre) : Satisfies(pre[i], last.where)}

ValuedPositions == {i \in FilteredPositions : pre[i].v # None}

RECURSIVE SumOver(_)
SumOver(positions) ==
    IF positions = {} THEN 0
    ELSE LET i == CHOOSE x \in positions : TRUE
         IN  pre[i].v + SumOver(positions \ {i})

(* x is the number n. *)
IsNumber(x, n) == ~x.null /\ x.den > 0 /\ x.num = n * x.den

(* What the aggregate is to be, by the rule of the functions. *)
IsAggregateValue(item, x) ==
    CASE item.func = "count" /\ item.arg \in {"*", "1"} ->
            IsNumber(x, Cardinality(FilteredPositions))
      [] item.func = "count" /\ item.distinct ->
            IsNumber(x, Cardinality({pre[i].v : i \in ValuedPositions}))
      [] item.func = "count" -> IsNumber(x, Cardinality(ValuedPositions))
      [] item.func = "sum" -> IsNumber(x, SumOver(ValuedPositions))
      [] item.func = "min" ->
            IF ValuedPositions = {} THEN x.null
            ELSE /\ \E i \in ValuedPositions : IsNumber(x, pre[i].v)
                 /\ \A i \in ValuedPositions : x.num <= pre[i].v * x.den
      [] item.func = "max" ->
            IF ValuedPositions = {} THEN x.null
            ELSE /\ \E i \in ValuedPositions : IsNumber(x, pre[i].v)
                 /\ \A i \in ValuedPositions : x.num >= pre[i].v * x.den
      [] OTHER ->
            IF ValuedPositions = {} THEN x.null
            ELSE /\ ~x.null
                 /\ x.den > 0
                 /\ x.num * Cardinality(ValuedPositions) =
                        SumOver(ValuedPositions) * x.den

(* C20: an ungrouped aggregate SELECT returns exactly one row, computed    *)
(* over the filtered rows: COUNT of * and COUNT of 1 count them all;       *)
(* COUNT, SUM, MIN, MAX and AVG of a column c ignore the rows where c is   *)
(* null or absent; over an empty set SUM is 0 and MIN, MAX and AVG are     *)
(* null.                                                                   *)
C20_UngroupedAggregates ==
    IsAggregate =>
        /\ Len(result) = 1
        /\ Len(result[1].values) = Len(last.select_items)
        /\ \A i \in 1..Len(last.select_items) :
                IsAggregateValue(last.select_items[i], result[1].values[i])
        /\ data = pre

(* AVG under a WHERE clause that selects a row holding a value and a row   *)
(* holding none: the average is that of the one value.                     *)
C20_Witness ==
    /\ IsAggregate
    /\ last.where # <<>>
    /\ last.select_items[1].func = "avg"
    /\ ValuedPositions # {}
    /\ FilteredPositions \ ValuedPositions # {}
    /\ result = <<[values |-> <<Quotient(SumOver(ValuedPositions), 1)>>]>>

----------------------------------------------------------------------------
(* Vocabulary of the query properties: the table is pre, the statement is  *)
(* last; rows are named by their position in the table.                    *)

IsQuery == pc = "done" /\ last.op = "query"

(* The WHERE clause with the parameters written in its placeholders. *)
QueryWhere ==
    [i \in 1..Len(last.where) |->
        IF IsPlaceholder(last.where[i])
           /\ PlaceholderCount(last.where, i) <= Len(last.parameters)
        THEN [last.where[i] EXCEPT
                !.vals = {last.parameters[PlaceholderCount(last.where, i)]}]
        ELSE last.where[i]]

QueryPositions == {i \in 1..Len(pre) : Satisfies(pre[i], QueryWhere)}

(* The value a row holds in the column a name denotes: names are not     *)
(* case-sensitive.                                                         *)
ValueAt(i, column) == IF lower(column) = "id" THEN pre[i].id ELSE pre[i].v

KeyAt(i) == [k \in 1..Len(last.group_by) |-> ValueAt(i, last.group_by[k])]

GroupOf(i) == {j \in QueryPositions : KeyAt(j) = KeyAt(i)}

RECURSIVE SumAt(_, _)
SumAt(positions, column) ==
    IF positions = {} THEN 0
    ELSE LET i == CHOOSE x \in positions : TRUE
         IN  ValueAt(i, column) + SumAt(positions \ {i}, column)

(* The aggregate of the rows at the positions, as a fraction or null. *)
AggregateAt(positions, item) ==
    LET valued == {i \in positions : ValueAt(i, item.arg) # None}
    IN  CASE item.func = "count" /\ item.arg \in {"*", "1"} ->
                Quotient(Cardinality(positions), 1)
          [] item.func = "count" /\ item.distinct ->
                Quotient(Cardinality({ValueAt(i, item.arg) : i \in valued}), 1)
          [] item.func = "count" -> Quotient(Cardinality(valued), 1)
          [] item.func = "sum" -> Quotient(SumAt(valued, item.arg), 1)
          [] valued = {} -> NullValue
          [] item.func = "min" ->
                Quotient(CHOOSE x \in {ValueAt(i, item.arg) : i \in valued} :
                            \A i \in valued : x <= ValueAt(i, item.arg), 1)
          [] item.func = "max" ->
                Quotient(CHOOSE x \in {ValueAt(i, item.arg) : i \in valued} :
                            \A i \in valued : x >= ValueAt(i, item.arg), 1)
          [] OTHER -> Quotient(SumAt(valued, item.arg), Cardinality(valued))

SameValue(x, y) ==
    /\ x.null = y.null
    /\ x.null \/ (x.den > 0 /\ y.den > 0 /\ x.num * y.den = y.num * x.den)

(* A HAVING condition over a group: a null aggregate satisfies none. *)
HavingHolds(positions, c) ==
    LET x == AggregateAt(positions, c)
    IN  /\ ~x.null
        /\ CASE c.operator = "="  -> x.num = c.value * x.den
             [] c.operator = ">"  -> x.num > c.value * x.den
             [] c.operator = "<"  -> x.num < c.value * x.den
             [] c.operator = ">=" -> x.num >= c.value * x.den
             [] OTHER -> x.num <= c.value * x.den

(* The first row of each group that satisfies the HAVING clause. *)
KeptGroups ==
    {i \in QueryPositions :
        /\ \A j \in QueryPositions : j < i => KeyAt(j) # KeyAt(i)
        /\ \A c \in SeqRange(last.having) : HavingHolds(GroupOf(i), c)}

(* The n-th smallest member of a set of positions. *)
Nth(positions, n) ==
    CHOOSE i \in positions : Cardinality({j \in positions : j < i}) = n - 1

IsGroupRow(row, i) ==
    /\ Len(row.values) = Len(last.select_items)
    /\ \A k \in 1..Len(last.select_items) :
        IF last.select_items[k].type = "column"
        THEN row.values[k] = ValueAt(i, last.select_items[k].name)
        ELSE SameValue(row.values[k], AggregateAt(GroupOf(i), last.select_items[k]))

IsGroupQuery == IsQuery /\ last.group_by # <<>> /\ ~IsError

LimitValue ==
    CASE last.limit.kind = "literal" -> last.limit.n
      [] last.limit.kind = "placeholder" ->
            last.parameters[PlaceholderCount(last.where, Len(last.where)) + 1]
      [] OTHER -> None

(* The output row of the table row at position i. *)
Projected(i) ==
    IF last.select_items = <<Wildcard>>
    THEN <<pre[i].id, pre[i].v>>
    ELSE [k \in 1..Len(last.select_items) |-> ValueAt(i, last.select_items[k].name)]

(* The filtered rows whose output row no earlier filtered row has. *)
FirstOccurrences ==
    {i \in QueryPositions :
        \A j \in QueryPositions : j < i => Projected(j) # Projected(i)}

Smaller(a, b) == IF a <= b THEN a ELSE b

IsDistinctQuery == IsQuery /\ last.is_distinct /\ ~IsError

(* C22: SELECT DISTINCT returns each distinct output row once, in the      *)
(* order of its first occurrence among the filtered rows, and LIMIT cuts   *)
(* the de-duplicated rows.                                                 *)
C22_DistinctFirstSeen ==
    IsDistinctQuery =>
        /\ Len(result) =
                IF last.limit.kind = "none" THEN Cardinality(FirstOccurrences)
                ELSE Smaller(LimitValue, Cardinality(FirstOccurrences))
        /\ \A n \in 1..Len(result) :
                result[n].values = Projected(Nth(FirstOccurrences, n))

(* DISTINCT over three rows, the first two alike, with LIMIT 2: both       *)
(* distinct rows are returned.                                             *)
C22_Witness ==
    /\ IsDistinctQuery
    /\ LimitValue = 2
    /\ Cardinality(QueryPositions) = 3
    /\ Projected(1) = Projected(2)
    /\ Len(result) = 2
    /\ result[2].values = Projected(3)

(* The columns a SELECT names: in its select list and its aggregates, in   *)
(* WHERE, GROUP BY, HAVING and ORDER BY.                                   *)
NamedColumns(q) ==
    {item.name : item \in {x \in SeqRange(q.select_items) : x.type = "column"}}
        \cup {item.arg : item \in {x \in SeqRange(q.select_items) :
                                    x.type = "aggregate" /\ x.arg \notin {"*", "1"}}}
        \cup {c.col : c \in SeqRange(q.where)}
        \cup SeqRange(q.group_by)
        \cup {c.arg : c \in {x \in SeqRange(q.having) : x.arg \notin {"*", "1"}}}
        \cup {o.col : o \in SeqRange(q.order_by)}

(* The select list, the GROUP BY list and the HAVING arguments alone. *)
ResolvedColumns(q) ==
    NamedColumns([q EXCEPT !.where = <<>>, !.order_by = <<>>])

(* The combinations that are not allowed. *)
InvalidCombination(q) ==
    LET has_aggregates == HasType(q.select_items, "aggregate")
        has_columns == HasType(q.select_items, "column")
        has_wildcard == HasType(q.select_items, "wildcard")
        grouped == q.group_by # <<>>
    IN  \/ has_wildcard /\ (has_aggregates \/ grouped \/ q.is_distinct)
        \/ q.is_distinct /\ (has_aggregates \/ grouped)
        \/ has_aggregates /\ has_columns /\ ~grouped
        \/ /\ grouped
           /\ \E item \in SeqRange(q.select_items) :
                /\ item.type = "column"
                /\ lower(item.name) \notin {lower(g) : g \in SeqRange(q.group_by)}
        \/ q.having # <<>> /\ ~grouped
        \/ has_aggregates /\ (q.order_by # <<>> \/ q.limit.kind # "none")

(* C23: a SELECT is rejected with Invalid Request, nothing returned and    *)
(* nothing changed, when it combines the wildcard with aggregates, GROUP   *)
(* BY or DISTINCT, DISTINCT with aggregates or GROUP BY, aggregates with   *)
(* plain columns without GROUP BY or a plain column missing from GROUP BY, *)
(* HAVING without GROUP BY, an aggregate with ORDER BY or LIMIT, or when   *)
(* it names a column that is not in the table schema.                      *)
C23_InvalidSelectRejected ==
    (/\ IsQuery
     /\ \/ InvalidCombination(last)
        \/ {lower(c) : c \in NamedColumns(last)} \ SeqRange(SchemaColumns) # {}) =>
        Failed("InvalidRequest") /\ data = pre

(* The direction an ORDER BY clause gives; the keyword is not              *)
(* case-sensitive.                                                         *)
Descending == upper(last.order_by[1].dir) = "DESC"

IsOrderQuery ==
    /\ IsQuery
    /\ last.order_by # <<>>
    /\ upper(last.order_by[1].dir) \in {"", "ASC", "DESC"}
    /\ last.limit.kind = "none"
    /\ last.select_items = <<Wildcard>>
    /\ ~last.is_distinct
    /\ last.group_by = <<>>

(* The value of the ORDER BY column in a row of SELECT *. *)
OrderKey(row) == IF last.order_by[1].col = "id" THEN row.values[1] ELSE row.values[2]

IsSorted ==
    \A n \in 1..(Len(result) - 1) :
        IF Descending
        THEN OrderKey(result[n]) >= OrderKey(result[n + 1])
        ELSE OrderKey(result[n]) <= OrderKey(result[n + 1])

IsFilteredRows ==
    /\ ~IsError
    /\ Len(result) = Cardinality(QueryPositions)
    /\ {result[n].values : n \in 1..Len(result)} =
            {Projected(i) : i \in QueryPositions}

(* C24: SELECT ... ORDER BY c is rejected with Invalid Request when c is   *)
(* not a column of the table, whatever the table holds and whatever the    *)
(* filter selects, no row included; for a column of the table the result   *)
(* is the filtered rows sorted by c, ascending unless DESC is given.       *)
C24_OrderBy ==
    IsOrderQuery =>
        IF last.order_by[1].col \notin SeqRange(SchemaColumns)
        THEN Failed("InvalidRequest")
        ELSE (\A i \in QueryPositions : ValueAt(i, last.order_by[1].col) # None)
                => IsFilteredRows /\ IsSorted

(* The filtered row at position j comes before the one at position i once  *)
(* ORDER BY is applied: by the ORDER BY column, rows of equal value in     *)
(* table order; in table order without ORDER BY.                           *)
ComesBefore(j, i) ==
    IF last.order_by = <<>> THEN j < i
    ELSE LET a == ValueAt(j, last.order_by[1].col)
             b == ValueAt(i, last.order_by[1].col)
         IN  \/ a = b /\ j < i
             \/ IF Descending THEN a > b ELSE a < b

(* The position of the k-th row of the ordered filtered result. *)
OrderedAt(k) ==
    CHOOSE i \in QueryPositions :
        Cardinality({j \in QueryPositions : ComesBefore(j, i)}) = k - 1

EnoughParameters ==
    LET placeholder_count == PlaceholderCount(last.where, Len(last.where))
    IN  Len(last.parameters) >=
            placeholder_count + (IF last.limit.kind = "placeholder" THEN 1 ELSE 0)

IsLimitQuery ==
    /\ IsQuery
    /\ last.limit.kind # "none"
    /\ last.select_items = <<Wildcard>>
    /\ ~last.is_distinct
    /\ last.group_by = <<>>
    /\ EnoughParameters
    /\ last.order_by # <<>> =>
            /\ last.order_by[1].col \in SeqRange(SchemaColumns)
            /\ \A i \in QueryPositions : ValueAt(i, last.order_by[1].col) # None

(* The number of rows LIMIT n lets through: no row can be among "the first *)
(* n" when n is below zero.                                                *)
LimitCount == IF LimitValue < 0 THEN 0 ELSE LimitValue

(* C25: a SELECT without aggregates with LIMIT n, n a literal or the       *)
(* parameter bound to the LIMIT placeholder, returns at most n rows: the   *)
(* first n rows of the filtered result after ORDER BY (all of them when    *)
(* there are fewer); the LIMIT placeholder takes the first parameter after *)
(* those of WHERE.                                                         *)
C25_LimitFirstRows ==
    IsLimitQuery =>
        /\ ~IsError
        /\ Len(result) = Smaller(LimitCount, Cardinality(QueryPositions))
        /\ \A k \in 1..Len(result) : result[k].values = Projected(OrderedAt(k))

(* The placeholders written in the statement: those of WHERE and the one   *)
(* of LIMIT.                                                               *)
QueryPlaceholders ==
    PlaceholderCount(last.where, Len(last.where))
        + (IF last.limit.kind = "placeholder" THEN 1 ELSE 0)

(* C26: a statement executed with positional parameters fails and changes  *)
(* no state whenever the number of its placeholders differs from the       *)
(* number of parameters, too few or too many, an empty parameter list      *)
(* with placeholders included; stated here for SELECT.                     *)
C26_ParameterCountChecked ==
    (IsQuery /\ QueryPlaceholders # Len(last.parameters)) =>
        IsError /\ data = pre

IsBatch == pc = "done" /\ last.op = "batch"

(* The n-th inner statement of the batch executed on its own on the table *)
(* d: a statement of a textual batch is handed to handle_query with the    *)
(* parameters of the batch, a statement of a batch object to the           *)
(* dispatcher of the session at its clock reading.                         *)
AloneOutcome(d, n) ==
    IF last.kind = "text"
    THEN handle_query(d, last.queries[n], last.parameters)
    ELSE run_query(d, last.times[n], last.queries[n])

ExecutedAlone(d, n) == AloneOutcome(d, n).data

(* The table after the first n inner statements were executed one by one,  *)
(* each at its clock reading.                                              *)
RECURSIVE OneByOne(_)
OneByOne(n) ==
    IF n = 0 THEN pre
    ELSE ExecutedAlone(OneByOne(n - 1), n)

(* C27: a batch, textual or a statement object, executes its inner         *)
(* INSERT, UPDATE and DELETE statements in the order written: the table    *)
(* afterwards is the one reached by executing them one by one in that      *)
(* order; an inner statement of no supported shape is passed over without  *)
(* error and the statements after it are executed.                         *)
C27_BatchIsSequence ==
    IsBatch => ~IsError /\ data = OneByOne(Len(last.queries))

(* The rows the batch wrote: those of the table that were not there, or    *)
(* not so, before it.                                                      *)
WrittenPositions == {i \in 1..Len(data) : data[i] \notin SeqRange(pre)}

(* C28: the inner statements of a batch that carry no USING TIMESTAMP are  *)
(* applied with one write timestamp: the rows the batch wrote all end      *)
(* with the same write timestamp.  Stated for the batch statement object,  *)
(* whose handlers record a write timestamp; the handlers of the textual    *)
(* batch record none.                                                      *)
C28_SharedTimestamp ==
    (IsBatch /\ last.kind = "object"
             /\ \A n \in 1..Len(last.queries) :
                    ~last.queries[n].using.timestamp_provided) =>
        \A i, j \in WrittenPositions : data[i].ts = data[j].ts

IsUnsupported ==
    pc = "done" /\ last.op = "dispatch" /\ last.query = Unsupported

(* The caller is told of a failure: an error is raised, or the text of an  *)
(* error is returned in the place of a result.                             *)
FailureReported == IsError \/ result = <<UnsupportedText>>

(* C29: a statement that matches none of the recognized shapes produces    *)
(* an explicit failure to the caller, never an empty successful result,    *)
(* and leaves the catalog and all rows unchanged.                          *)
C29_UnsupportedFails ==
    IsUnsupported =>
        /\ FailureReported
        /\ result # <<>>
        /\ data = pre
        /\ keyspaces = pre_keyspaces

StoredTable == keyspaces[TypedKeyspace].tables[TypedTable]

DeclaredType(col) == SchemaGet(StoredTable.schema, col)

(* The Python type of the values of a column of the declared type. *)
IsIntegerType(cql_type) == lower(cql_type) \in {"int", "counter", "bigint"}

(* The value a literal stands for in a column of the declared type. *)
ValueOf(text, cql_type) ==
    IF IsIntegerType(cql_type) THEN IntValue(DigitsValue(text)) ELSE StrValue(text)

(* The literal is a value of the declared type: an integer column takes a *)
(* number.                                                                 *)
IsValueOf(text, cql_type) == IsIntegerType(cql_type) => IsDigits(text)

IsInsertLiteral == pc = "done" /\ last.op = "insert_literal"

IsSelectLiteral == pc = "done" /\ last.op = "select_literal"

(* The columns of a row that the schema declares. *)
ColumnsDeclaredOf(row) == {c \in DOMAIN row : DeclaredType(c) # ""}

(* The number a stored value of an integer column stands for. *)
NumberOf(val) == IF val.type = "int" THEN val.n ELSE DigitsValue(val.s)

StandsForNumber(val) == val.type = "int" \/ IsDigits(val.s)

NumberHolds(a, op, b) ==
    CASE op = "=" -> a = b
      [] op = ">" -> a > b
      [] op = "<" -> a < b
      [] op = ">=" -> a >= b
      [] OTHER -> a <= b

(* An INSERT of literals that are values of their declared columns stores  *)
(* a row that holds those values.                                          *)
InsertedIsTyped ==
    (/\ IsInsertLiteral
     /\ \A i \in 1..Len(last.arg.columns) :
            /\ DeclaredType(last.arg.columns[i]) # ""
            /\ IsValueOf(last.arg.values[i].text,
                         DeclaredType(last.arg.columns[i]))) =>
        /\ ~IsError
        /\ StoredTable.data # <<>>
        /\ \A i \in 1..Len(last.arg.columns) :
                StoredTable.data[Len(StoredTable.data)][last.arg.columns[i]] =
                    ValueOf(last.arg.values[i].text,
                            DeclaredType(last.arg.columns[i]))

(* SELECT * returns the stored rows, each column the schema declares under *)
(* its name and with the Python type of its declared type.                 *)
SelectedIsTyped ==
    (IsSelectLiteral /\ last.arg = <<>>) =>
        /\ result = StoredTable.data
        /\ \A i \in 1..Len(result) : \A c \in ColumnsDeclaredOf(result[i]) :
                result[i][c].type =
                    (IF IsIntegerType(DeclaredType(c)) THEN "int" ELSE "str")

(* The rows a comparison on an integer column lets through are those whose *)
(* number stands in that relation to the number written.                   *)
ComparedAsNumber ==
    (/\ IsSelectLiteral
     /\ Len(last.arg) = 1
     /\ IsIntegerType(DeclaredType(last.arg[1].col))
     /\ IsDigits(last.arg[1].val.text)
     /\ \A i \in 1..Len(StoredTable.data) :
            last.arg[1].col \in DOMAIN StoredTable.data[i] =>
                StandsForNumber(StoredTable.data[i][last.arg[1].col])) =>
        /\ ~IsError
        /\ result =
                SelectSeq(StoredTable.data,
                          LAMBDA x :
                            /\ last.arg[1].col \in DOMAIN x
                            /\ NumberHolds(NumberOf(x[last.arg[1].col]),
                                           last.arg[1].op,
                                           DigitsValue(last.arg[1].val.text)))

(* C30: after CREATE TABLE, an INSERT of literal values stores, and        *)
(* SELECT * returns under the declared column names, the inserted values   *)
(* with the type of the declared column; a value of an integer column is   *)
(* an integer in the result and in the comparisons of WHERE, never a       *)
(* string.                                                                 *)
C30_TypedRoundTrip == InsertedIsTyped /\ SelectedIsTyped /\ ComparedAsNumber

LocalRows(ks) == ks["system"].tables["local"].data

(* C31: after any sequence of statements, those that name a table of the   *)
(* system keyspace included, system.local holds exactly one row and its    *)
(* key is 'local'.                                                         *)
C31_OneLocalRow == LocalRows(keyspaces) = <<[key |-> "local"]>>

IsSchemaDml ==
    /\ pc = "done"
    /\ last.op \in {"insert_system", "update_system", "delete_system"}
    /\ last.keyspace_name = "system_schema"

(* C32: the tables of system_schema are read-only: an INSERT, UPDATE or    *)
(* DELETE that names one of them leaves its rows as they were, so the      *)
(* tables still equal the projection of the live catalog.                  *)
C32_SchemaReadOnly ==
    IsSchemaDml =>
        /\ StoredSchemaRows(keyspaces) = StoredSchemaRows(pre_keyspaces)
        /\ StoredSchemaRows(keyspaces) = SchemaRows(keyspaces)

IsReset == pc = "done" /\ last.op \in {"reset", "enter"}

(* The tables system_schema has in the two ScyllaState classes. *)
SchemaTableNames ==
    IF last.op = "reset"
    THEN {"keyspaces", "tables", "columns", "indexes", "views"}
    ELSE {"keyspaces", "tables", "columns", "indexes"}

(* C33: reset(), and entering a context, leaves exactly the initial        *)
(* catalog whatever was executed before: the keyspaces system and          *)
(* system_schema alone, system.local with its single row, the reflective   *)
(* tables describing those two keyspaces, no user keyspace, table or row.  *)
C33_ResetIsInitial ==
    IsReset =>
        /\ DOMAIN keyspaces = {"system", "system_schema"}
        /\ DOMAIN keyspaces["system"].tables = {"local"}
        /\ LocalRows(keyspaces) = <<[key |-> "local"]>>
        /\ DOMAIN keyspaces["system_schema"].tables = SchemaTableNames
        /\ \A t \in SchemaTableNames :
                keyspaces["system_schema"].tables[t].data =
                    SchemaRows(keyspaces)[t]
        /\ keyspaces["system_schema"].tables["keyspaces"].data =
                {[keyspace_name |-> "system"], [keyspace_name |-> "system_schema"]}
        /\ keyspaces["system_schema"].tables["tables"].data =
                {[keyspace_name |-> "system", table_name |-> "local"]}
                \cup {[keyspace_name |-> "system_schema", table_name |-> t] :
                        t \in SchemaTableNames}
        /\ \A t \in SchemaTableNames \ {"keyspaces", "tables", "columns"} :
                keyspaces["system_schema"].tables[t].data = {}
        /\ \A k \in DOMAIN keyspaces : \A t \in DOMAIN keyspaces[k].tables :
                keyspaces[k].tables[t].indexes = <<>>

C33_Witness ==
    /\ IsReset
    /\ \E k \in KeyspaceNames :
        /\ k \in DOMAIN pre_keyspaces
        /\ \E n \in DOMAIN pre_keyspaces[k].tables :
                pre_keyspaces[k].tables[n].data # <<>>
    /\ LocalRows(pre_keyspaces) # <<[key |-> "local"]>>
    /\ [keyspace_name |-> "zz"] \in StoredSchemaRows(pre_keyspaces)["keyspaces"]

IsNegativeTtlWrite ==
    /\ pc = "done"
    /\ last.op \in {"insert", "update"}
    /\ last.using.ttl_provided
    /\ last.using.ttl_value < 0

(* C34: an INSERT or UPDATE with USING TTL n, n < 0, fails with Invalid    *)
(* Request; no row is written and every row that is not expired keeps its  *)
(* values, write timestamp and expiry (the INSERT may purge expired rows).  *)
C34_NegativeTtlRejected ==
    IsNegativeTtlWrite =>
        /\ Failed("InvalidRequest")
        /\ purge_expired_rows(data, now) = purge_expired_rows(pre, now)
        /\ data = IF last.op = "insert" THEN purge_expired_rows(pre, now) ELSE pre

C34_Witness ==
    /\ IsNegativeTtlWrite
    /\ last.op = "insert"
    /\ \E i \in 1..Len(pre) : pre[i].id = last.id /\ pre[i].exp # None
    /\ purge_expired_rows(pre, now) # <<>>

(* The signed sum of the increments of column col in the statements on id. *)
RECURSIVE SignedSum(_, _, _)
SignedSum(queries, id, col) ==
    IF queries = <<>> THEN 0
    ELSE LET q == Head(queries)
             inc == IF q.id = id /\ q.col = col
                    THEN (IF q.sign = "-" THEN 0 - q.n ELSE q.n)
                    ELSE 0
         IN  inc + SignedSum(Tail(queries), id, col)

Incremented(id, col) ==
    \E i \in 1..Len(CounterHistory) :
        CounterHistory[i].id = id /\ CounterHistory[i].col = col

(* C35: from a table without a row for k, after any sequence of            *)
(* UPDATE t SET col = col + n / col = col - n WHERE id = k there is        *)
(* exactly one row for k, and each counter column of it that a statement   *)
(* named holds the signed sum of its increments (a column missing from     *)
(* the existing row counting as 0); a column never named is absent.        *)
C35_CounterSum ==
    \A id \in Keys :
        LET rows == SelectSeq(data, LAMBDA r : r.id = id)
        IN  IF \E col \in CounterColumns : Incremented(id, col)
            THEN /\ Len(rows) = 1
                 /\ \A col \in CounterColumns :
                        IF Incremented(id, col)
                        THEN /\ col \in DOMAIN rows[1].counters
                             /\ rows[1].counters[col] =
                                    SignedSum(CounterHistory, id, col)
                        ELSE col \notin DOMAIN rows[1].counters
            ELSE rows = <<>>

C35_Witness ==
    /\ pc = "done"
    /\ Len(CounterHistory) = MaxCounterUpdates
    /\ \A i \in 1..MaxCounterUpdates : CounterHistory[i].id = last.id
    /\ CounterHistory[1].col = "d"
    /\ CounterHistory[2] = StmtCounter(last.id, "c", "-", MaxDelta)
    /\ last = StmtCounter(last.id, "c", "+", 1)
    /\ \E i \in 1..Len(data) :
            data[i].id = last.id /\ data[i].counters["c"] = 1 - MaxDelta

IsAppliedWrite ==
    /\ pc = "done"
    /\ last.op \in {"insert", "update"}
    /\ last.lwt \in {"if_not_exists", "if_exists"}
    /\ result = <<[applied |-> TRUE]>>

(* The rows the last statement addresses: the row of the inserted primary  *)
(* key, or the rows its WHERE clause selects.                              *)
TargetedRows ==
    IF last.op = "insert"
    THEN SelectSeq(data, LAMBDA r : r.id = last.id)
    ELSE SelectSeq(data, LAMBDA r : check_row_conditions(r, parse_where_clause(last.where)))

(* C36: after a conditional INSERT or UPDATE that returned                 *)
(* [applied] = true, a targeted row exists and every targeted row holds    *)
(* the value the statement assigns.                                        *)
C36_AppliedMeansWritten ==
    IsAppliedWrite =>
        /\ TargetedRows # <<>>
        /\ \A i \in 1..Len(TargetedRows) : TargetedRows[i].v = last.v

IsInsert == pc = "done" /\ last.op = "insert"

(* The rows of the table the INSERT finds: those not expired. *)
RowsBefore == purge_expired_rows(pre, now)

(* C37: an INSERT onto a primary key that a row of the table carries       *)
(* leaves the number of rows and every other row as they were, the row of  *)
(* that key staying at its position; an INSERT of a key no row carries     *)
(* appends its row at the end, or under IF EXISTS adds nothing.  Rows are  *)
(* those not expired when the statement runs.                              *)
C37_InsertKeepsOrder ==
    IsInsert =>
        IF \E i \in 1..Len(RowsBefore) : RowsBefore[i].id = last.id
        THEN /\ Len(data) = Len(RowsBefore)
             /\ \A i \in 1..Len(data) : data[i].id = RowsBefore[i].id
             /\ \A i \in 1..Len(data) :
                    data[i].id # last.id => data[i] = RowsBefore[i]
        ELSE IF last.lwt = "if_exists"
        THEN data = RowsBefore
        ELSE /\ Len(data) = Len(RowsBefore) + 1
             /\ SubSeq(data, 1, Len(RowsBefore)) = RowsBefore
             /\ data[Len(data)].id = last.id
             /\ data[Len(data)].v = last.v

C37_Witness ==
    /\ IsInsert
    /\ last.lwt = "none"
    /\ Len(RowsBefore) >= 2
    /\ RowsBefore[1].id = last.id
    /\ RowsBefore[1].v # last.v
    /\ Len(data) = Len(RowsBefore)
    /\ data[1].v = last.v

(* The n-th inner statement raises when it is executed after the n - 1     *)
(* statements before it.                                                   *)
RaisesAt(n) ==
    LET out == AloneOutcome(OneByOne(n - 1), n)
    IN  Len(out.result) = 1 /\ "error" \in DOMAIN out.result[1]

FirstRaising ==
    IF \E n \in 1..Len(last.queries) : RaisesAt(n)
    THEN CHOOSE n \in 1..Len(last.queries) :
            RaisesAt(n) /\ \A m \in 1..(n - 1) : ~RaisesAt(m)
    ELSE 0

(* C38: when an inner statement of a batch raises, the batch fails, the    *)
(* table is the one the statements before it left (the raising statement   *)
(* itself having at most purged expired rows), and no statement after it   *)
(* has run: nothing is rolled back.                                        *)
C38_FailedBatchNotRolledBack ==
    (IsBatch /\ FirstRaising # 0) =>
        /\ IsError
        /\ data = OneByOne(FirstRaising)
        /\ purge_expired_rows(data, now) =
                purge_expired_rows(OneByOne(FirstRaising - 1), now)

C38_Witness ==
    /\ IsBatch
    /\ Len(last.queries) = MaxFailingBatch
    /\ FirstRaising = 2
    /\ IsError
    /\ data # pre
    /\ purge_expired_rows(data, now) # purge_expired_rows(pre, now)
    /\ ExecutedAlone(data, 3) # data

(* A call made on the session after it was shut down. *)
CalledAfterShutdown ==
    /\ pc = "done"
    /\ last.op \in {"set_keyspace", "execute", "execute_async", "prepare",
                    "shutdown", "close"}
    /\ last.session.is_shutdown

SessionLeftAlone ==
    /\ session = last.session
    /\ keyspaces = pre_keyspaces
    /\ data = pre

(* C39: on a session that was shut down, execute, execute_async, prepare   *)
(* and set_keyspace raise and leave the session (its keyspace, its         *)
(* prepared statements, its shut-down flag), the catalog and the rows as   *)
(* they were; shutdown and close return without error and change nothing,  *)
(* so the session stays shut down.                                         *)
C39_ShutdownIsFinal ==
    CalledAfterShutdown =>
        /\ SessionLeftAlone
        /\ session.is_shutdown
        /\ IF last.op \in {"shutdown", "close"}
           THEN result = <<>>
           ELSE Failed("RuntimeError")

C39_Witness ==
    /\ CalledAfterShutdown
    /\ last.op = "execute"
    /\ last.query.op = "insert"
    /\ \A i \in 1..Len(data) : data[i].id # last.query.id
    /\ data # <<>>
    /\ session.keyspace = "ks1"
    /\ session.prepared_statements > 0
    /\ Failed("RuntimeError")
====
